---- MODULE Spec2Model ----
(***************************************************************************)
(* FlowWeave: the queue-driven graph execution engine                      *)
(* (internal/domain/workflow/engine/engine.go) over the graph of           *)
(* internal/domain/workflow/graph, with the execution aggregate of the     *)
(* runtime package.                                                        *)
(*                                                                         *)
(* One run of GraphEngine.Run is modelled: the Run goroutine, the worker   *)
(* pool, the command handler and the dispatcher are separate processes     *)
(* that interleave at the granularity of their channel operations and of   *)
(* their reads and writes of shared state.  The workers are kept as a bag  *)
(* of local states (they are interchangeable goroutines).  The output      *)
(* channel is observed through what has been written to it: the consumer   *)
(* is taken to drain it, so a write to it never blocks.                    *)
(***************************************************************************)
EXTENDS Integers, Sequences, FiniteSets, Bags, TLC

(***************************************************************************)
(* Bounds of the model.                                                    *)
(***************************************************************************)
\* Config.MaxWorkers is drawn from 1..MaxWorkers.
MaxWorkers == 2
\* Commands the caller sends during one run.
MaxCommands == 2
\* Stream chunks a streaming node emits in one attempt.
MaxChunks == 1
\* Capacity of eventQueue.  The source allocates 256 slots (engine.go:83);
\* the model keeps the channel bounded and FIFO with a capacity small
\* enough for a full queue to be reachable.
EventQueueCap == 2

(***************************************************************************)
(* Program constants.                                                      *)
(***************************************************************************)
\* DefaultConfig().MaxNodeSteps
MaxNodeSteps == 100
\* cap(commandCh)
CommandChCap == 16

\* types.NodeState
NodeStateUnknown == "unknown"
NodeStateTaken == "taken"
NodeStateSkipped == "skipped"

\* types.ErrorStrategy
ErrorStrategyNone == ""
ErrorStrategyFailBranch == "fail-branch"
ErrorStrategyDefaultValue == "default-value"
ErrorStrategyRetry == "retry"

\* types.CommandType
CommandAbort == "abort"
CommandPause == "pause"
CommandResume == "resume"
Commands == {CommandAbort, CommandPause, CommandResume}

\* types.FailBranchSourceHandle
FailBranchSourceHandleFailed == "fail-branch"
FailBranchSourceHandleSuccess == "success-branch"

\* event.EventType
EventTypeGraphRunSucceeded == "graph_run_succeeded"
EventTypeGraphRunFailed == "graph_run_failed"
EventTypeGraphRunAborted == "graph_run_aborted"
EventTypeNodeRunStarted == "node_run_started"
EventTypeNodeRunSucceeded == "node_run_succeeded"
EventTypeNodeRunFailed == "node_run_failed"
EventTypeNodeStreamChunk == "node_stream_chunk"
TerminalGraphEvents ==
    {EventTypeGraphRunSucceeded, EventTypeGraphRunFailed, EventTypeGraphRunAborted}

(***************************************************************************)
(* The DSL graphs the engine is run on.  Each is what graph.Init builds    *)
(* from a DSL document: nodes, the ordered edge list (edge k is edge_k of  *)
(* buildEdges, an absent sourceHandle defaulting to "source"), the root,   *)
(* and per node its error strategy and the shape of what its Run does:     *)
(* Branch are the if/else nodes (their outputs carry __branch__), Stream   *)
(* the nodes run through RunStreamWithEvents, Infallible the nodes whose   *)
(* executor always returns a succeeded result (start and if/else nodes).   *)
(***************************************************************************)
Edge(t, h, sh) == [Tail |-> t, Head |-> h, SourceHandle |-> sh]

\* A plain path (R -> A -> M) beside an if/else node X whose branch b1 leads
\* to M as well: M is a merge-join of A and X.
GraphJoin ==
    [Nodes    |-> {"R", "A", "X", "M"},
     Root     |-> "R",
     Edges    |-> << Edge("R", "A", "source"), Edge("R", "X", "source"),
                     Edge("A", "M", "source"), Edge("X", "M", "b1") >>,
     Strategy |-> [n \in {"R", "A", "X", "M"} |-> ErrorStrategyNone],
     Branch   |-> {"X"},
     Stream   |-> {},
     Infallible |-> {"R", "X"}]

\* A chain with a retry node Q (the DSL of TestErrorStrategy_Retry), a
\* streaming default-value node D (the strategy of TestErrorStrategy_DefaultValue)
\* and a pass-through node Z after it.
GraphStrategies ==
    [Nodes    |-> {"R", "Q", "D", "Z"},
     Root     |-> "R",
     Edges    |-> << Edge("R", "Q", "source"), Edge("Q", "D", "source"),
                     Edge("D", "Z", "source") >>,
     Strategy |-> [n \in {"R", "Q", "D", "Z"} |->
                      CASE n = "Q" -> ErrorStrategyRetry
                        [] n = "D" -> ErrorStrategyDefaultValue
                        [] OTHER   -> ErrorStrategyNone],
     Branch   |-> {},
     Stream   |-> {"D"},
     Infallible |-> {"R", "Z"}]

\* A fail-branch func node F with an out-edge of every kind of source handle
\* (the edges of TestErrorStrategy_FailBranch, plus a plain and a custom handle);
\* F has no in-edge and there is no start node, so findRootNodeID makes it the root.
GraphFailBranch ==
    [Nodes    |-> {"F", "S", "E", "C"},
     Root     |-> "F",
     Edges    |-> << Edge("F", "S", FailBranchSourceHandleSuccess),
                     Edge("F", "E", FailBranchSourceHandleFailed),
                     Edge("F", "C", "b1"),
                     Edge("F", "S", "source") >>,
     Strategy |-> [n \in {"F", "S", "E", "C"} |->
                      IF n = "F" THEN ErrorStrategyFailBranch ELSE ErrorStrategyNone],
     Branch   |-> {},
     Stream   |-> {},
     Infallible |-> {}]

\* Four edges between the same two nodes (buildEdges keeps duplicates): T is
\* a merge-join whose four in-edges all come from R.
GraphParallel ==
    [Nodes    |-> {"R", "T"},
     Root     |-> "R",
     Edges    |-> << Edge("R", "T", "source"), Edge("R", "T", "source"),
                     Edge("R", "T", "source"), Edge("R", "T", "source") >>,
     Strategy |-> [n \in {"R", "T"} |-> ErrorStrategyNone],
     Branch   |-> {},
     Stream   |-> {},
     Infallible |-> {"R"}]

\* An if/else root X whose branch b1 leads to the chain P -> Q: when X takes
\* another branch, P is skipped and the skip has to travel on to Q.
GraphSkipChain ==
    [Nodes    |-> {"X", "P", "Q"},
     Root     |-> "X",
     Edges    |-> << Edge("X", "P", "b1"), Edge("P", "Q", "source") >>,
     Strategy |-> [n \in {"X", "P", "Q"} |-> ErrorStrategyNone],
     Branch   |-> {"X"},
     Stream   |-> {},
     Infallible |-> {"X"}]

Graphs == << GraphJoin, GraphStrategies, GraphFailBranch, GraphParallel,
             GraphSkipChain >>

\* The values an if/else node writes to __branch__ (a condition id, or "false").
BranchValues == {"b1", "false"}
\* What a node's variable-pool slot holds: nothing, the outputs of its
\* successful attempt, its DSL default map (or the empty map), or {__error__}.
PoolUnset == "unset"
PoolOutputs == "outputs"
PoolDefault == "default"
PoolError == "error"

\* outputs of a finished node, as far as fan-out reads them: nil, a map
\* without __branch__, or a map whose __branch__ is one of BranchValues.
OutputsNil == "nil"
OutputsPlain == "plain"

\* max_node_steps of the configuration of the runs with a low step limit
SmallNodeSteps == 3
\* retry.max_retries of the DSL's retry nodes
MaxRetries == 1
\* retry.retry_interval (ms) of the DSL's retry nodes
RetryInterval == 10

VARIABLES
    gid,             \* index in Graphs of the graph under execution
    config,          \* engine.Config: [MaxWorkers, MaxNodeSteps]
    runPc,           \* position of the Run goroutine
    workers,         \* bag of the worker goroutines' local states
    readyQueue,      \* e.readyQueue: FIFO of node ids
    queueClosed,     \* readyQueue has been closed (closeOnce fired)
    pendingCount,    \* e.pendingCount
    completedNodes,  \* e.completedNodes: set of node ids
    nodeState,       \* node.State() per node
    edgeState,       \* edge.state per edge index
    nodeRunSteps,    \* runtimeState.NodeRunSteps
    eventQueue,      \* e.eventQueue: FIFO of node events
    eventsClosed,    \* eventQueue has been closed
    dispatcherPc,    \* "running" | "exited"
    commandCh,       \* e.commandCh: FIFO of commands
    sent,            \* commands the caller has sent so far
    paused,          \* e.paused
    ctxDone,         \* the run context is cancelled
    execution,       \* runtime.GraphExecution: [Aborted, Error, ExceptionsCount]
    output,          \* what has been written to outputCh, see Init
    followedEdges,   \* observer: edges for which shouldFollowEdge answered true
    nodeResult,      \* observer: how each node's execution ended
    variablePool     \* VariablePool: what each node's slot holds

engineVars ==
    << gid, config, runPc, workers, readyQueue, queueClosed, pendingCount,
       completedNodes, nodeState, edgeState, nodeRunSteps, eventQueue,
       eventsClosed, dispatcherPc, commandCh, sent, paused, ctxDone,
       execution, output, followedEdges, nodeResult, variablePool >>

\* The short-term memory (STM) of one conversation and its clients.
VARIABLES
    store,           \* the conversation's Redis hash, as LoadState reads it
    appenders,       \* per client, the position and locals of its Append call
    compressor,      \* position and locals of the compressAsync goroutine
    hist             \* observer: what the STM operations have done so far

stmVars == << store, appenders, compressor, hist >>

\* The HTTP run handlers over the repository's tables.
VARIABLES
    conversations,   \* table conversations: per conversation_id its ownership row
    runs,            \* table workflow_runs: per run id its row
    requests,        \* per request, the position and locals of its handler
    now              \* the database clock read by NOW()

apiVars == << conversations, runs, requests, now >>

\* One call of GatewayCompressor.Compress and the write of its result.
VARIABLES
    gateway

gatewayVars == << gateway >>

\* One run of an LLM node in agent mode and its Memorize goroutine.
VARIABLES
    agent,
    memorize

agentVars == << agent, memorize >>

\* The Redis key of the compression lock of one conversation, and the
\* compressAsync goroutines that contend for it.
VARIABLES
    lock,
    compressions

lockVars == << lock, compressions >>

\* The conversation_summaries row and the Redis cache entry of one
\* conversation, with the LoadSummary and SaveSummary calls on them.
VARIABLES
    pg,
    cache,
    loads,
    saves

mtmVars == << pg, cache, loads, saves >>

serviceVars == << apiVars, gatewayVars, agentVars, lockVars, mtmVars >>

vars == << engineVars, stmVars, serviceVars >>


(***************************************************************************)
(* The graph under execution and its adjacency (graph.Graph).              *)
(***************************************************************************)
G == Graphs[gid]
Nodes == G.Nodes
Edges == G.Edges
EdgeIds == 1..Len(Edges)
RootNode == G.Root

\* Graph.GetOutgoingEdges: the out-edges of a node, in the order buildEdges
\* appended them.
GetOutgoingEdges(nodeID) ==
    SelectSeq([k \in EdgeIds |-> k], LAMBDA k : Edges[k].Tail = nodeID)
\* Graph.GetIncomingEdges
GetIncomingEdges(nodeID) ==
    SelectSeq([k \in EdgeIds |-> k], LAMBDA k : Edges[k].Head = nodeID)

SeqRange(s) == {s[k] : k \in 1..Len(s)}

\* A mutation of ErrorStrategy: the DefaultValue strategy is not recognised.
ErrorStrategyWithoutDefaultValue(n) ==
    IF G.Strategy[n] = ErrorStrategyDefaultValue
    THEN ErrorStrategyNone
    ELSE G.Strategy[n]

ErrorStrategy(n) == G.Strategy[n]
\* Branch nodes (if/else) write __branch__ into their outputs.
IsBranchNode(n) == n \in G.Branch
\* Streaming nodes (answer, llm) go through RunStreamWithEvents and emit chunks.
IsStreamNode(n) == n \in G.Stream
\* Start, if/else and pass-through (iteration-start) nodes return a succeeded
\* result whatever their input.
CanFail(n) == n \notin G.Infallible

\* A mutation of maxAttempts: a retry node gets one attempt too many.
maxAttemptsOneMore(n) ==
    IF ErrorStrategy(n) = ErrorStrategyRetry /\ MaxRetries > 0
    THEN MaxRetries + 2 ELSE 1

\* A mutation of maxAttempts: every node is retried, whatever its strategy.
maxAttemptsAnyStrategy(n) == MaxRetries + 1

\* executeNode, lines 297-305: the number of attempts a node gets.
maxAttempts(n) ==
    IF ErrorStrategy(n) = ErrorStrategyRetry /\ MaxRetries > 0
    THEN MaxRetries + 1 ELSE 1

\* cap(readyQueue) = len(g.Nodes) + 1
ReadyQueueCap == Cardinality(Nodes) + 1

(***************************************************************************)
(* Edge fan-out decisions.                                                 *)
(***************************************************************************)
\* GraphEngine.shouldFollowEdge.  outputs is OutputsNil, OutputsPlain (a map
\* with no __branch__ key) or the value of outputs["__branch__"].
shouldFollowEdge(e, outputs, nodeFailed) ==
    CASE Edges[e].SourceHandle = "source" -> ~nodeFailed
      [] Edges[e].SourceHandle = FailBranchSourceHandleFailed -> nodeFailed
      [] Edges[e].SourceHandle = FailBranchSourceHandleSuccess -> ~nodeFailed
      [] OTHER ->
           IF outputs \notin {OutputsNil, OutputsPlain}
           THEN outputs = Edges[e].SourceHandle
           ELSE TRUE

\* GraphEngine.allRequiredInEdgesReady
allRequiredInEdgesReady(nodeID) ==
    LET inEdges == GetIncomingEdges(nodeID) IN
    IF Len(inEdges) <= 1 THEN TRUE
    ELSE \A k \in 1..Len(inEdges) :
            \/ edgeState[inEdges[k]] = NodeStateSkipped
            \/ Edges[inEdges[k]].Tail \in completedNodes

RECURSIVE propagateSkip(_, _), skipOutEdges(_, _, _)
\* A mutation of propagateSkip: one Skipped in-edge is enough to skip the node.
propagateSkipOnAnyInEdge(st, nodeID) ==
    LET inEdges == GetIncomingEdges(nodeID)
        anySkipped == \E k \in 1..Len(inEdges) : st.es[inEdges[k]] = NodeStateSkipped
    IN  IF ~anySkipped \/ st.ns[nodeID] = NodeStateSkipped THEN st
        ELSE skipOutEdges([st EXCEPT !.ns[nodeID] = NodeStateSkipped],
                          GetOutgoingEdges(nodeID), 1)
\* GraphEngine.propagateSkip on st = [ns |-> node states, es |-> edge states]:
\* the states after the call.
propagateSkip(st, nodeID) ==
    LET inEdges == GetIncomingEdges(nodeID)
        allSkipped == \A k \in 1..Len(inEdges) : st.es[inEdges[k]] = NodeStateSkipped
    IN  IF ~allSkipped THEN st
        ELSE skipOutEdges([st EXCEPT !.ns[nodeID] = NodeStateSkipped],
                          GetOutgoingEdges(nodeID), 1)
\* The loop of propagateSkip over the out-edges, lines 521-524.
skipOutEdges(st, outEdges, k) ==
    IF k > Len(outEdges) THEN st
    ELSE skipOutEdges(
            propagateSkip([st EXCEPT !.es[outEdges[k]] = NodeStateSkipped],
                          Edges[outEdges[k]].Head),
            outEdges, k + 1)


(***************************************************************************)
(* Worker goroutines.  A worker's local state: where it is in              *)
(* worker/checkPaused/executeNode/processEdges (pc), the node id it took   *)
(* from readyQueue, the attempt it is on, the chunks forwarded in this     *)
(* attempt, and the arguments of processEdges (outputs, nodeFailed) with   *)
(* the index i of the out-edge the loop is at.                             *)
(***************************************************************************)
Worker(pc, node, attempt, chunks, outputs, nodeFailed, i) ==
    [pc |-> pc, node |-> node, attempt |-> attempt, chunks |-> chunks,
     outputs |-> outputs, nodeFailed |-> nodeFailed, i |-> i]
IdleWorker == Worker("idle", "-", 0, 0, OutputsNil, FALSE, 0)
ExitedWorker == Worker("exited", "-", 0, 0, OutputsNil, FALSE, 0)
At(w, pc) == [w EXCEPT !.pc = pc]

WorkerSet == BagToSet(workers)
\* workers with one worker in state w replaced by one in state w2
Move(w, w2) == (workers (-) SetToBag({w})) (+) SetToBag({w2})

\* A node event in eventQueue.
NodeEvent(type, nodeID) ==
    [Type |-> type, NodeID |-> nodeID, UsedDefaultValue |-> FALSE]

(***************************************************************************)
(* The short-term memory: RedisSTM keeps one Redis hash per conversation,  *)
(* holding an STMState; Coordinator.Memorize appends to it, compressAsync  *)
(* rewrites it, Clear deletes it.                                          *)
(***************************************************************************)
\* Model sizes: the clients that call Append; the Append calls of a workload
\* without compression and of one with compression; the Clear calls, the
\* compression runs and the failing Redis or gateway calls of a workload.
NumAppenders == 2
MaxAppends == 6
CompressAppends == 3
MaxClears == 1
MaxCompressions == 2
MaxFailures == 1

\* What the clients of the conversation do in a run: how many Append calls,
\* Clear calls and compression runs are started, how many calls fail.
Workloads ==
    { [appends |-> MaxAppends, clears |-> MaxClears, runs |-> 0,
       failures |-> MaxFailures],
      [appends |-> CompressAppends, clears |-> MaxClears, runs |-> MaxCompressions,
       failures |-> MaxFailures] }

\* A mutation of maxRetry: one attempt fewer.
maxRetryOneFewer == 5 - 1

\* RedisSTM.Append: const maxRetry
maxRetry == 5

\* GatewayConfig.MinRecentTurns as the DSL sets it (the default is 4).
MinRecentTurns == 1

Appenders == 1..NumAppenders

\* The messages of Append call c: Memorize appends the user message and the
\* assistant message of one turn.
Turn(c) == << [Call |-> c, Role |-> "user"], [Call |-> c, Role |-> "assistant"] >>

\* LoadState, lines 62-70: the state of a conversation without a hash.  The
\* gateway summary is modelled by the messages it was made from.
EmptySTMState ==
    [RecentMessages      |-> << >>,
     GatewaySummary      |-> << >>,
     KeyFacts            |-> {},
     TokenEstimate       |-> 0,
     LastCompressedAt    |-> 0,
     CompressedTurnCount |-> 0,
     Version             |-> 0]

\* The hash is absent.
NoHash == [present |-> FALSE, state |-> EmptySTMState]

\* The hashes a run starts from: none, or the one left by a first Append.
InitialHashes ==
    { NoHash,
      [present |-> TRUE,
       state   |-> [EmptySTMState EXCEPT !.RecentMessages = Turn(0), !.Version = 1]] }

IdleAppender == [pc |-> "idle", attempt |-> 0, call |-> 0, state |-> EmptySTMState]

IdleCompressor ==
    [pc |-> "idle", state |-> EmptySTMState, toCompress |-> << >>, toKeep |-> << >>,
     result |-> [CompressedSummary |-> << >>, KeyFacts |-> {}],
     currentState |-> EmptySTMState,
     commitsAtLoad |-> 0]    \* observer: the commits before the first LoadState

\* The observer of the STM operations, before any of them.
NoHistory(hash, workload) ==
    [workload       |-> workload,
     initialVersion |-> hash.state.Version,
     initialMessages |-> hash.state.RecentMessages,
     calls          |-> 0,          \* Append calls started
     results        |-> << >>,      \* per call: "pending", "ok", "conflict", "error"
     lost           |-> << >>,      \* per call: the CAS attempts it has lost
     order          |-> << >>,      \* the calls whose CAS committed, in commit order
     otherCommits   |-> 0,          \* compression write-backs and Clears committed
     clears         |-> 0,          \* Clear calls
     runs           |-> 0,          \* compression runs started
     failures       |-> 0,          \* Redis and gateway calls that failed
     maxVersion     |-> hash.state.Version,  \* the highest version stored so far
     lastCommit     |-> << >>,      \* the version before and after the last commit
     staleWrite     |-> FALSE,      \* a compression wrote over a later commit
     removed        |-> {},         \* messages a compression write dropped unseen
     afterRuns      |-> << >>,      \* the states after the last two finished runs
     outcomes       |-> << >>,      \* how the last two finished runs ended
     quiet          |-> FALSE,      \* no Append or Clear committed since the last run
     quietBetween   |-> FALSE]      \* the value of quiet when the last run ended

\* The STM with no operation under way.
STMAtRest ==
    /\ store = NoHash
    /\ appenders = [a \in Appenders |-> IdleAppender]
    /\ compressor = IdleCompressor
    /\ hist = NoHistory(NoHash, [appends |-> 0, clears |-> 0, runs |-> 0,
                                  failures |-> 0])

(***************************************************************************)
(* The run handlers (WorkflowHandler.RunWorkflow, RunWorkflowStream) and   *)
(* the two tables they write: conversations, keyed by conversation_id      *)
(* (PRIMARY KEY), and workflow_runs, keyed by the run id CreateRun draws.  *)
(* The database is taken to be available: its statements do not fail.      *)
(***************************************************************************)
NumRequests == 2

Requests == 1..NumRequests

\* ScopeFrom found no scope in the request context (compatibility mode).
NoScope == [OrgID |-> "", TenantID |-> ""]

Scopes ==
    { [OrgID |-> "orgA", TenantID |-> "tenantA"],
      [OrgID |-> "orgA", TenantID |-> "tenantB"],
      [OrgID |-> "orgB", TenantID |-> "tenantA"] }

\* conversation_id of a run request; "" when the request names none.
ConversationIDs == {"conv-001"}

RunStatusRunning   == "running"
RunStatusSucceeded == "succeeded"
RunStatusFailed    == "failed"
RunStatusAborted   == "aborted"

NoConversation ==
    [present |-> FALSE, org_id |-> "", tenant_id |-> "",
     created_at |-> 0, updated_at |-> 0]

NoRun ==
    [present |-> FALSE, org_id |-> "", tenant_id |-> "", conversation_id |-> "",
     status |-> "",
     statuses |-> << >>]   \* observer: every value the status column has held

\* What a client can send: the scope of its credentials, the conversation
\* and the route (run or run/stream).  The requests of a behaviour are all
\* received at its start; their handlers interleave.
RequestInputs ==
    [scope : Scopes \cup {NoScope},
     conversation_id : ConversationIDs \cup {""},
     stream : BOOLEAN]

NewRequest(in) ==
    [pc              |-> "received",
     scope           |-> in.scope,
     conversation_id |-> in.conversation_id,
     stream          |-> in.stream,
     status          |-> "",        \* run.Status of the handler's run value
     response        |-> "none",    \* what the handler answered
     executed        |-> FALSE,     \* the runner was started on the workflow
     terminal        |-> "",        \* the terminal graph event of the execution
     stmWrite        |-> FALSE]     \* the execution wrote the conversation's STM

APIAtRest ==
    /\ conversations = [c \in ConversationIDs |-> NoConversation]
    /\ runs = [id \in Requests |-> NoRun]
    /\ requests = [r \in Requests |->
                     NewRequest([scope |-> NoScope, conversation_id |-> "",
                                 stream |-> FALSE])]
    /\ now = 0

(***************************************************************************)
(* The key facts of a conversation: STMState.KeyFacts, a map from fact     *)
(* name to value, rewritten by each gateway compression that is saved.     *)
(* A fact's value is identified by the compression run that extracted it.  *)
(* (In the short-term memory model further below the facts are abstracted  *)
(* to their origins; here the map itself is followed.)                     *)
(***************************************************************************)
NumKeys == 21
MaxGatewayRuns == 2

\* GatewayCompressor.Compress, line 106: "if len(result.KeyFacts) > 20".
maxKeyFacts == 20

Keys == 1..NumKeys

\* make(map[string]string)
NoFacts == [k \in {} |-> 0]

\* The key sets of the key_facts objects the compression model returns.
ExtractedKeySets ==
    {1..hi : hi \in 0..NumKeys} \cup {lo..NumKeys : lo \in 1..NumKeys}

GatewayIdle ==
    [pc        |-> "idle",
     runs      |-> 0,          \* compressAsync calls started so far
     stored    |-> NoFacts,    \* key_facts of the conversation's Redis hash
     state     |-> NoFacts,    \* state.KeyFacts, as loaded by this run
     parsed    |-> FALSE,      \* parseCompressResponse returned no error
     extracted |-> NoFacts,    \* result.KeyFacts, as parsed from the response
     result    |-> NoFacts,    \* result.KeyFacts, as Compress returns it
     wrote     |-> FALSE]      \* the last run saved its result

GatewayAtRest == gateway = GatewayIdle

(***************************************************************************)
(* An LLM node in agent mode (LLMNode.Run with tools configured) and the   *)
(* Memorize goroutine its saveMemory starts.                               *)
(***************************************************************************)
MaxToolCalls == 2

\* LLMNode.Run: "const safetyLimit = 10".
safetyLimit == 10

\* provider.Message, as far as the loop reads and writes it.  The id of
\* tool call i of round r is 10 * r + i.
AssistantMessage(toolCalls) ==
    [Role |-> "assistant", ToolCallID |-> 0, ToolCalls |-> toolCalls]

ToolMessage(id) ==
    [Role |-> "tool", ToolCallID |-> id, ToolCalls |-> << >>]

\* A slot of toolMessages no goroutine has written yet.
NoMessage == [Role |-> "", ToolCallID |-> 0, ToolCalls |-> << >>]

AgentIdle ==
    [pc            |-> "idle",
     memoryEnabled |-> FALSE,   \* n.data.Memory enables the short-term memory
     round         |-> 0,
     messages      |-> << [Role |-> "user", ToolCallID |-> 0, ToolCalls |-> << >>] >>,
     toolCalls     |-> << >>,   \* ids of resp.ToolCalls of this round
     toolMessages  |-> << >>,
     content       |-> "",
     result        |-> "none",  \* status of the NodeRunResult, "failed" for an error
     error         |-> "none",
     calls         |-> 0,       \* observer: calls of llmProvider.Complete
     toolRounds    |-> 0,       \* observer: responses that carried tool calls
     completed     |-> << >>]   \* observer: the order the tools of this round ended in

MemorizeIdle ==
    [pc |-> "idle", err |-> "none", appended |-> FALSE, failure |-> "none"]

AgentAtRest == agent = AgentIdle /\ memorize = MemorizeIdle

(***************************************************************************)
(* The compression lock (RedisCompressLock).                               *)
(***************************************************************************)
\* the compressAsync goroutines contending for one conversation's lock
NumCompressions == 3
Compressions == 1..NumCompressions
\* NewRedisCompressLock: ttl is 30 seconds
ttl == 30
\* the seconds that pass in one step of the clock
TickSeconds == 10

\* The key stm:v2:lock:<conversation>: absent, or present with the seconds
\* it has left.  owner (the compression whose SetNX created the key) and
\* freedForeign (a Release deleted a key created by another compression)
\* are observers: Redis stores the value "locked" for every holder.
NoLock == [present |-> FALSE, left |-> 0, owner |-> 0, freedForeign |-> FALSE]

LockAtRest ==
    /\ lock = NoLock
    /\ compressions = [c \in Compressions |-> "idle"]

(***************************************************************************)
(* The medium-term memory (PgMTM): a summary is represented by its ordinal *)
(* among the summaries saved for the conversation, 0 for none.             *)
(***************************************************************************)
\* concurrent LoadSummary calls, and SaveSummary calls
NumLoads == 2
NumSaves == 2
Loads == 1..NumLoads
Saves == 1..NumSaves

\* A LoadSummary call: where it is, the row it read from PostgreSQL, what it
\* returned, and (observer) the summary that had been saved, with no save
\* in progress, when it started.
IdleLoad == [pc |-> "idle", read |-> 0, result |-> 0, saved |-> 0]

MTMAtRest ==
    /\ pg = 0
    /\ cache = 0
    /\ loads = [l \in Loads |-> IdleLoad]
    /\ saves = [s \in Saves |-> "idle"]

ServicesAtRest ==
    APIAtRest /\ GatewayAtRest /\ AgentAtRest /\ LockAtRest /\ MTMAtRest

(***************************************************************************)
(* Init: the engine as New(g, runtimeState, config) leaves it, for each    *)
(* graph and each worker count, before Run is called.                      *)
(***************************************************************************)
\* The engine after New, for a graph of Graphs and a configuration whose
\* max_node_steps is one of limits.
EngineStart(limits) ==
    /\ gid \in 1..Len(Graphs)
    /\ config \in [MaxWorkers : 1..MaxWorkers, MaxNodeSteps : limits]
    /\ runPc = "new"
    /\ workers = EmptyBag
    /\ readyQueue = << >>
    /\ queueClosed = FALSE
    /\ pendingCount = 0
    /\ completedNodes = {}
    /\ nodeState = [n \in Nodes |-> NodeStateUnknown]
    /\ edgeState = [e \in EdgeIds |-> NodeStateUnknown]
    /\ nodeRunSteps = 0
    /\ eventQueue = << >>
    /\ eventsClosed = FALSE
    /\ dispatcherPc = "none"
    /\ commandCh = << >>
    /\ sent = << >>
    /\ paused = FALSE
    /\ ctxDone = FALSE
    /\ execution = [Aborted |-> FALSE, Error |-> FALSE, ExceptionsCount |-> 0]
    /\ output = [started   |-> FALSE,   \* graph_run_started has been written
                 terminals |-> << >>,   \* the terminal graph events written, in order
                 closed    |-> FALSE,   \* outputCh is closed
                 misplaced |-> 0,       \* node events written outside started..terminal
                 nodes     |-> [n \in Nodes |-> << >>]]  \* per node, its events in order
    /\ followedEdges = {}
    /\ nodeResult = [n \in Nodes |-> "none"]
    /\ variablePool = [n \in Nodes |-> PoolUnset]

\* DefaultConfig: max_node_steps is 100.
EngineInit == EngineStart({MaxNodeSteps})

Init == EngineInit /\ STMAtRest /\ ServicesAtRest

\* The engine before Run, on the first graph with one worker.
EngineAtRest == EngineInit /\ gid = 1 /\ config.MaxWorkers = 1

(***************************************************************************)
(* GraphEngine.Run, lines 92-137: graph_run_started, the root check, the   *)
(* root is enqueued, the command handler, the workers and the dispatcher   *)
(* are started.                                                            *)
(***************************************************************************)
RunStart ==
    /\ runPc = "new"
    /\ IF nodeState[RootNode] = NodeStateSkipped
       THEN /\ output' = [output EXCEPT !.started = TRUE,
                                        !.terminals = Append(@, EventTypeGraphRunFailed),
                                        !.closed = TRUE]
            /\ runPc' = "done"
            /\ UNCHANGED << pendingCount, readyQueue, workers, dispatcherPc >>
       ELSE /\ output' = [output EXCEPT !.started = TRUE]
            /\ pendingCount' = pendingCount + 1
            /\ readyQueue' = Append(readyQueue, RootNode)
            /\ workers' = [w \in {IdleWorker} |-> config.MaxWorkers]
            /\ dispatcherPc' = "running"
            /\ runPc' = "running"
    /\ UNCHANGED << gid, config, queueClosed, completedNodes, nodeState, edgeState,
                    nodeRunSteps, eventQueue, eventsClosed, commandCh, sent, paused,
                    ctxDone, execution, followedEdges, nodeResult, variablePool, stmVars, serviceVars >>

(***************************************************************************)
(* SendCommand (Abort, Pause, Resume): a non-blocking send; the command is *)
(* dropped when commandCh is full.  The caller sends its commands to a     *)
(* running engine, one whose Run is still waiting for its workers, and     *)
(* follows the protocol of the engine's tests: it pauses an engine it has  *)
(* not paused, resumes one it has paused, and sends nothing after an       *)
(* abort.  sent is the sequence of commands sent so far.                   *)
(***************************************************************************)
CallerMaySend(cmd) ==
    /\ CommandAbort \notin SeqRange(sent)
    /\ LET pausedByCaller == sent # << >> /\ sent[Len(sent)] = CommandPause
       IN  CASE cmd = CommandPause  -> ~pausedByCaller
             [] cmd = CommandResume -> pausedByCaller
             [] OTHER               -> TRUE

SendCommand(cmd) ==
    /\ Len(sent) < MaxCommands
    /\ runPc = "running"
    /\ CallerMaySend(cmd)
    /\ sent' = Append(sent, cmd)
    /\ commandCh' = IF Len(commandCh) < CommandChCap
                    THEN Append(commandCh, cmd) ELSE commandCh
    /\ UNCHANGED << gid, config, runPc, workers, readyQueue, queueClosed, pendingCount,
                    completedNodes, nodeState, edgeState, nodeRunSteps, eventQueue,
                    eventsClosed, dispatcherPc, paused, ctxDone, execution, output,
                    followedEdges, nodeResult, variablePool, stmVars, serviceVars >>

RECURSIVE wake(_, _)
\* bag with every copy of the states in S moved to "pauseLoop"
wake(bag, S) ==
    IF S = {} THEN bag
    ELSE LET w == CHOOSE x \in S : TRUE
             n == CopiesIn(w, bag)
         IN  wake((bag (-) [x \in {w} |-> n]) (+) [x \in {At(w, "pauseLoop")} |-> n],
                  S \ {w})

\* pauseCond.Broadcast(): every goroutine blocked in pauseCond.Wait() wakes
\* and re-evaluates the loop condition of checkPaused.
Broadcast == wake(workers, {w \in WorkerSet : w.pc = "condWait"})

(***************************************************************************)
(* commandHandler: one command taken from commandCh and applied.           *)
(***************************************************************************)
HandleCommand ==
    /\ dispatcherPc # "none"
    /\ commandCh # << >>
    /\ commandCh' = Tail(commandCh)
    /\ LET cmd == Head(commandCh) IN
       CASE cmd = CommandAbort ->
              \* Execution().Abort("aborted by user"); cancel()
              /\ execution' = [execution EXCEPT !.Aborted = TRUE, !.Error = TRUE]
              /\ ctxDone' = TRUE
              /\ UNCHANGED << paused, workers >>
         [] cmd = CommandPause ->
              /\ paused' = TRUE
              /\ UNCHANGED << execution, ctxDone, workers >>
         [] cmd = CommandResume ->
              /\ paused' = FALSE
              /\ workers' = Broadcast
              /\ UNCHANGED << execution, ctxDone >>
    /\ UNCHANGED << gid, config, runPc, readyQueue, queueClosed, pendingCount,
                    completedNodes, nodeState, edgeState, nodeRunSteps, eventQueue,
                    eventsClosed, dispatcherPc, sent, output, followedEdges, nodeResult, variablePool, stmVars, serviceVars >>


(***************************************************************************)
(* Shared pieces of the worker's steps.                                    *)
(***************************************************************************)
\* A mutation of nodeFinished: the queue is closed with one node id pending.
nodeFinishedClosesAtOne ==
    /\ pendingCount' = pendingCount - 1
    /\ queueClosed' = (queueClosed \/ pendingCount - 1 <= 1)

\* nodeFinished: pendingCount.Add(-1); at zero the ready queue is closed, once.
nodeFinished ==
    /\ pendingCount' = pendingCount - 1
    /\ queueClosed' = (queueClosed \/ pendingCount - 1 <= 0)

\* e.eventQueue <- evt blocks while the queue is full.
CanSendEvent == Len(eventQueue) < EventQueueCap

(***************************************************************************)
(* worker, lines 229-236: the select.  A node id is received from          *)
(* readyQueue; checkPaused's first paused.Load() decides between going on  *)
(* and entering the pause barrier.                                         *)
(***************************************************************************)
WorkerTake ==
    \E w \in WorkerSet :
        /\ w.pc = "idle"
        /\ readyQueue # << >>
        /\ readyQueue' = Tail(readyQueue)
        /\ workers' = Move(w, [At(w, IF paused THEN "pauseLoop" ELSE "got")
                                 EXCEPT !.node = Head(readyQueue)])
        /\ UNCHANGED << gid, config, runPc, queueClosed, pendingCount, completedNodes,
                        nodeState, edgeState, nodeRunSteps, eventQueue, eventsClosed,
                        dispatcherPc, commandCh, sent, paused, ctxDone, execution,
                        output, followedEdges, nodeResult, variablePool, stmVars, serviceVars >>

\* worker, lines 231-236: the select returns on ctx.Done(), or on the closed
\* and drained ready queue.
WorkerExit ==
    \E w \in WorkerSet :
        /\ w.pc = "idle"
        /\ ctxDone \/ (readyQueue = << >> /\ queueClosed)
        /\ workers' = Move(w, ExitedWorker)
        /\ UNCHANGED << gid, config, runPc, readyQueue, queueClosed, pendingCount,
                        completedNodes, nodeState, edgeState, nodeRunSteps, eventQueue,
                        eventsClosed, dispatcherPc, commandCh, sent, paused, ctxDone,
                        execution, output, followedEdges, nodeResult, variablePool, stmVars, serviceVars >>

(***************************************************************************)
(* checkPaused, lines 211-218: one evaluation of the loop head under       *)
(* pauseMu: paused.Load(), then the ctx.Done() poll.  A false return makes *)
(* the worker call nodeFinished and return (lines 239-242).                *)
(***************************************************************************)
CheckPaused ==
    \E w \in WorkerSet :
        /\ w.pc = "pauseLoop"
        /\ IF ~paused
           THEN /\ workers' = Move(w, At(w, "got"))
                /\ UNCHANGED << pendingCount, queueClosed >>
           ELSE IF ctxDone
           THEN /\ workers' = Move(w, ExitedWorker)
                /\ nodeFinished
           ELSE /\ workers' = Move(w, At(w, "preWait"))
                /\ UNCHANGED << pendingCount, queueClosed >>
        /\ UNCHANGED << gid, config, runPc, readyQueue, completedNodes, nodeState,
                        edgeState, nodeRunSteps, eventQueue, eventsClosed, dispatcherPc,
                        commandCh, sent, paused, ctxDone, execution, output,
                        followedEdges, nodeResult, variablePool, stmVars, serviceVars >>

\* checkPaused, line 219: pauseCond.Wait() parks the goroutine; only a
\* Broadcast wakes it.
CondWait ==
    \E w \in WorkerSet :
        /\ w.pc = "preWait"
        /\ workers' = Move(w, At(w, "condWait"))
        /\ UNCHANGED << gid, config, runPc, readyQueue, queueClosed, pendingCount,
                        completedNodes, nodeState, edgeState, nodeRunSteps, eventQueue,
                        eventsClosed, dispatcherPc, commandCh, sent, paused, ctxDone,
                        execution, output, followedEdges, nodeResult, variablePool, stmVars, serviceVars >>

(***************************************************************************)
(* worker, lines 244-248, and executeNode, lines 273-292: the dedup        *)
(* LoadOrStore on completedNodes, then the Skipped check and the step      *)
(* limit check.                                                            *)
(***************************************************************************)
\* A mutation of loaded: no node id is ever found in completedNodes.
loadedNever(nodeID) == FALSE

\* worker, line 245: the "loaded" result of completedNodes.LoadOrStore.
loaded(nodeID) == nodeID \in completedNodes

Dedup ==
    \E w \in WorkerSet :
        /\ w.pc = "got"
        /\ IF loaded(w.node)
           THEN /\ nodeFinished
                /\ workers' = Move(w, IdleWorker)
                /\ UNCHANGED << completedNodes, execution >>
           ELSE /\ completedNodes' = completedNodes \cup {w.node}
                /\ UNCHANGED << pendingCount, queueClosed >>
                /\ IF nodeState[w.node] = NodeStateSkipped
                   THEN \* processEdges(ctx, nodeID, nil, false)
                        /\ workers' = Move(w, [At(w, "edges") EXCEPT
                                                 !.outputs = OutputsNil,
                                                 !.nodeFailed = FALSE, !.i = 1])
                        /\ UNCHANGED execution
                   ELSE IF nodeRunSteps >= config.MaxNodeSteps
                   THEN /\ execution' = [execution EXCEPT !.Error = TRUE]
                        /\ workers' = Move(w, At(w, "fin"))
                   ELSE /\ workers' = Move(w, At(w, "begin"))
                        /\ UNCHANGED execution
        /\ UNCHANGED << gid, config, runPc, readyQueue, nodeState, edgeState,
                        nodeRunSteps, eventQueue, eventsClosed, dispatcherPc, commandCh,
                        sent, paused, ctxDone, output, followedEdges, nodeResult, variablePool, stmVars, serviceVars >>

\* executeNode, lines 294-305: the step counter, the Taken state, attempt 0.
Begin ==
    \E w \in WorkerSet :
        /\ w.pc = "begin"
        /\ nodeRunSteps' = nodeRunSteps + 1
        /\ nodeState' = [nodeState EXCEPT ![w.node] = NodeStateTaken]
        /\ workers' = Move(w, [At(w, "attempt") EXCEPT !.attempt = 0])
        /\ UNCHANGED << gid, config, runPc, readyQueue, queueClosed, pendingCount,
                        completedNodes, edgeState, eventQueue, eventsClosed,
                        dispatcherPc, commandCh, sent, paused, ctxDone, execution,
                        output, followedEdges, nodeResult, variablePool, stmVars, serviceVars >>


(***************************************************************************)
(* runNodeOnce: n.Run starts the node, whose events (started, chunk*,      *)
(* then succeeded or failed: RunWithEvents / RunStreamWithEvents) the      *)
(* worker forwards to eventQueue one by one, except failed ones.           *)
(***************************************************************************)
\* executeNode, lines 311-323 with runNodeOnce, line 405: before a retry the
\* worker sleeps retry_interval unless the context is done (then executeNode
\* returns); the attempt's started event is forwarded.
Started ==
    \E w \in WorkerSet :
        /\ w.pc = "attempt"
        /\ IF w.attempt > 0 /\ RetryInterval > 0 /\ ctxDone
           THEN /\ workers' = Move(w, At(w, "fin"))
                /\ UNCHANGED eventQueue
           ELSE /\ CanSendEvent
                /\ eventQueue' = Append(eventQueue,
                                        NodeEvent(EventTypeNodeRunStarted, w.node))
                /\ workers' = Move(w, [At(w, "stream") EXCEPT !.chunks = 0])
        /\ UNCHANGED << gid, config, runPc, readyQueue, queueClosed, pendingCount,
                        completedNodes, nodeState, edgeState, nodeRunSteps, eventsClosed,
                        dispatcherPc, commandCh, sent, paused, ctxDone, execution,
                        output, followedEdges, nodeResult, variablePool, stmVars, serviceVars >>

\* runNodeOnce, line 405: a stream chunk of a streaming node is forwarded.
Chunk ==
    \E w \in WorkerSet :
        /\ w.pc = "stream"
        /\ IsStreamNode(w.node)
        /\ w.chunks < MaxChunks
        /\ CanSendEvent
        /\ eventQueue' = Append(eventQueue, NodeEvent(EventTypeNodeStreamChunk, w.node))
        /\ workers' = Move(w, [w EXCEPT !.chunks = w.chunks + 1])
        /\ UNCHANGED << gid, config, runPc, readyQueue, queueClosed, pendingCount,
                        completedNodes, nodeState, edgeState, nodeRunSteps, eventsClosed,
                        dispatcherPc, commandCh, sent, paused, ctxDone, execution,
                        output, followedEdges, nodeResult, variablePool, stmVars, serviceVars >>

\* What a successful node hands to fan-out: an if/else node's map carries
\* __branch__, any other node's map does not.
SuccessOutputs(n) == IF IsBranchNode(n) THEN BranchValues ELSE {OutputsPlain}

\* runNodeOnce, lines 405-408 and 416, executeNode, lines 324-327 and 371-376:
\* the attempt ends with a succeeded event, which is forwarded; the outputs
\* go to the variable pool and to processEdges(outputs, false).
AttemptSucceeds ==
    \E w \in WorkerSet :
        /\ w.pc = "stream"
        /\ CanSendEvent
        /\ eventQueue' = Append(eventQueue, NodeEvent(EventTypeNodeRunSucceeded, w.node))
        /\ \E outputs \in SuccessOutputs(w.node) :
              workers' = Move(w, [At(w, "edges") EXCEPT !.outputs = outputs,
                                                        !.nodeFailed = FALSE, !.i = 1])
        /\ nodeResult' = [nodeResult EXCEPT ![w.node] = "succeeded"]
        /\ variablePool' = [variablePool EXCEPT ![w.node] = PoolOutputs]
        /\ UNCHANGED << gid, config, runPc, readyQueue, queueClosed, pendingCount,
                        completedNodes, nodeState, edgeState, nodeRunSteps, eventsClosed,
                        dispatcherPc, commandCh, sent, paused, ctxDone, execution,
                        output, followedEdges, stmVars, serviceVars >>

\* runNodeOnce, lines 399-402 and 412-414, executeNode, lines 329-368: the
\* attempt ends with a failed event, which is not forwarded.  With attempts
\* left the node is retried; otherwise the error strategy decides.
AttemptFails ==
    \E w \in WorkerSet :
        /\ w.pc = "stream"
        /\ CanFail(w.node)
        /\ IF w.attempt + 1 < maxAttempts(w.node)
           THEN /\ workers' = Move(w, [At(w, "attempt") EXCEPT !.attempt = w.attempt + 1])
                /\ UNCHANGED << eventQueue, execution, nodeResult, variablePool >>
           ELSE /\ CanSendEvent
                /\ CASE ErrorStrategy(w.node) = ErrorStrategyFailBranch ->
                          \* synthetic failed event, {__error__}, processEdges(nil, true)
                          /\ eventQueue' = Append(eventQueue,
                                               NodeEvent(EventTypeNodeRunFailed, w.node))
                          /\ workers' = Move(w, [At(w, "edges") EXCEPT
                                                   !.outputs = OutputsNil,
                                                   !.nodeFailed = TRUE, !.i = 1])
                          /\ nodeResult' = [nodeResult EXCEPT ![w.node] = "failed"]
                          /\ variablePool' = [variablePool EXCEPT ![w.node] = PoolError]
                          /\ UNCHANGED execution
                    [] ErrorStrategy(w.node) = ErrorStrategyDefaultValue ->
                          \* synthetic succeeded event, processEdges(defaultOutputs, false)
                          /\ eventQueue' = Append(eventQueue,
                                               [NodeEvent(EventTypeNodeRunSucceeded, w.node)
                                                   EXCEPT !.UsedDefaultValue = TRUE])
                          /\ workers' = Move(w, [At(w, "edges") EXCEPT
                                                   !.outputs = OutputsPlain,
                                                   !.nodeFailed = FALSE, !.i = 1])
                          /\ nodeResult' = [nodeResult EXCEPT ![w.node] = "default"]
                          /\ variablePool' = [variablePool EXCEPT ![w.node] = PoolDefault]
                          /\ UNCHANGED execution
                    [] OTHER ->
                          \* Execution().Fail(...), the failed event, no fan-out
                          /\ execution' = [execution EXCEPT !.Error = TRUE]
                          /\ eventQueue' = Append(eventQueue,
                                               NodeEvent(EventTypeNodeRunFailed, w.node))
                          /\ workers' = Move(w, At(w, "fin"))
                          /\ nodeResult' = [nodeResult EXCEPT ![w.node] = "failed"]
                          /\ UNCHANGED variablePool
        /\ UNCHANGED << gid, config, runPc, readyQueue, queueClosed, pendingCount,
                        completedNodes, nodeState, edgeState, nodeRunSteps, eventsClosed,
                        dispatcherPc, commandCh, sent, paused, ctxDone, output,
                        followedEdges, stmVars, serviceVars >>

(***************************************************************************)
(* processEdges: one iteration of the loop over the node's out-edges.      *)
(***************************************************************************)
ProcessEdge ==
    \E w \in WorkerSet :
        /\ w.pc = "edges"
        /\ w.i <= Len(GetOutgoingEdges(w.node))
        /\ LET e == GetOutgoingEdges(w.node)[w.i]
               targetNodeID == Edges[e].Head
               next == [w EXCEPT !.i = w.i + 1]
           IN  IF edgeState[e] = NodeStateSkipped
               THEN /\ workers' = Move(w, next)
                    /\ UNCHANGED << nodeState, edgeState, followedEdges,
                                    pendingCount, readyQueue >>
               ELSE IF ~shouldFollowEdge(e, w.outputs, w.nodeFailed)
               THEN LET st == propagateSkip(
                                [ns |-> nodeState,
                                 es |-> [edgeState EXCEPT ![e] = NodeStateSkipped]],
                                targetNodeID)
                    IN  /\ nodeState' = st.ns
                        /\ edgeState' = st.es
                        /\ workers' = Move(w, next)
                        /\ UNCHANGED << followedEdges, pendingCount, readyQueue >>
               ELSE /\ followedEdges' = followedEdges \cup {e}
                    /\ IF ~allRequiredInEdgesReady(targetNodeID)
                       THEN /\ workers' = Move(w, next)
                            /\ UNCHANGED << nodeState, edgeState, pendingCount, readyQueue >>
                       ELSE /\ edgeState' = [edgeState EXCEPT ![e] = NodeStateTaken]
                            /\ UNCHANGED nodeState
                            /\ IF nodeState[targetNodeID] = NodeStateSkipped
                               THEN /\ workers' = Move(w, next)
                                    /\ UNCHANGED << pendingCount, readyQueue >>
                               ELSE \* enqueueNode: pendingCount.Add(1), then the send
                                    /\ pendingCount' = pendingCount + 1
                                    /\ IF Len(readyQueue) < ReadyQueueCap
                                       THEN /\ readyQueue' = Append(readyQueue, targetNodeID)
                                            /\ workers' = Move(w, next)
                                       ELSE /\ workers' = Move(w, At(w, "send"))
                                            /\ UNCHANGED readyQueue
        /\ UNCHANGED << gid, config, runPc, queueClosed, completedNodes, nodeRunSteps,
                        eventQueue, eventsClosed, dispatcherPc, commandCh, sent, paused,
                        ctxDone, execution, output, nodeResult, variablePool, stmVars, serviceVars >>

\* enqueueNode, line 259: the send that found readyQueue full goes through
\* once there is room.
EnqueueSend ==
    \E w \in WorkerSet :
        /\ w.pc = "send"
        /\ Len(readyQueue) < ReadyQueueCap
        /\ readyQueue' = Append(readyQueue, Edges[GetOutgoingEdges(w.node)[w.i]].Head)
        /\ workers' = Move(w, [At(w, "edges") EXCEPT !.i = w.i + 1])
        /\ UNCHANGED << gid, config, runPc, queueClosed, pendingCount, completedNodes,
                        nodeState, edgeState, nodeRunSteps, eventQueue, eventsClosed,
                        dispatcherPc, commandCh, sent, paused, ctxDone, execution,
                        output, followedEdges, nodeResult, variablePool, stmVars, serviceVars >>

\* worker, line 251: executeNode has returned; nodeFinished, back to the select.
Finish ==
    \E w \in WorkerSet :
        /\ \/ w.pc = "fin"
           \/ w.pc = "edges" /\ w.i > Len(GetOutgoingEdges(w.node))
        /\ nodeFinished
        /\ workers' = Move(w, IdleWorker)
        /\ UNCHANGED << gid, config, runPc, readyQueue, completedNodes, nodeState,
                        edgeState, nodeRunSteps, eventQueue, eventsClosed, dispatcherPc,
                        commandCh, sent, paused, ctxDone, execution, output,
                        followedEdges, nodeResult, variablePool, stmVars, serviceVars >>


(***************************************************************************)
(* dispatcher: one event taken from eventQueue.  With the context done the *)
(* dispatcher returns (the event taken is dropped); otherwise the event is *)
(* projected onto a graph event and written to outputCh.                   *)
(***************************************************************************)
\* The graph event written for a node event (its Type and NodeID are kept),
\* as recorded in output.
WriteNodeEvent(evt) ==
    [output EXCEPT
        !.nodes[evt.NodeID] = Append(@, evt.Type),
        !.misplaced = IF output.started /\ output.terminals = << >> /\ ~output.closed
                      THEN @ ELSE @ + 1]

Dispatch ==
    /\ dispatcherPc = "running"
    /\ eventQueue # << >>
    /\ eventQueue' = Tail(eventQueue)
    /\ IF ctxDone
       THEN /\ dispatcherPc' = "exited"
            /\ UNCHANGED << output, execution >>
       ELSE /\ output' = WriteNodeEvent(Head(eventQueue))
            /\ execution' =
                 IF Head(eventQueue).Type = EventTypeNodeRunFailed
                 THEN [execution EXCEPT !.ExceptionsCount = @ + 1]
                 ELSE execution
            /\ UNCHANGED dispatcherPc
    /\ UNCHANGED << gid, config, runPc, workers, readyQueue, queueClosed, pendingCount,
                    completedNodes, nodeState, edgeState, nodeRunSteps, eventsClosed,
                    commandCh, sent, paused, ctxDone, followedEdges, nodeResult, variablePool, stmVars, serviceVars >>

\* dispatcher, line 529: the range loop ends on the closed and drained queue.
DispatcherExit ==
    /\ dispatcherPc = "running"
    /\ eventQueue = << >>
    /\ eventsClosed
    /\ dispatcherPc' = "exited"
    /\ UNCHANGED << gid, config, runPc, workers, readyQueue, queueClosed, pendingCount,
                    completedNodes, nodeState, edgeState, nodeRunSteps, eventQueue,
                    eventsClosed, commandCh, sent, paused, ctxDone, execution, output,
                    followedEdges, nodeResult, variablePool, stmVars, serviceVars >>

(***************************************************************************)
(* GraphEngine.Run, lines 139-166.                                         *)
(***************************************************************************)
\* workerWg.Wait() returns when every worker has returned.
WorkersDone == \A w \in WorkerSet : w.pc = "exited"

\* A mutation of DispatcherDone: Run does not wait for the dispatcher.
DispatcherDoneNoWait == TRUE

\* dispatcherDone.Wait() returns when the dispatcher has returned.
DispatcherDone == dispatcherPc = "exited"

\* A mutation of terminalEvent: a node failure of any strategy fails the run.
terminalEventAnyNodeFailure ==
    IF execution.Aborted THEN EventTypeGraphRunAborted
    ELSE IF execution.Error \/ \E n \in Nodes : nodeResult[n] \in {"failed", "default"}
         THEN EventTypeGraphRunFailed
         ELSE EventTypeGraphRunSucceeded

\* A mutation of terminalEvent: the execution's error is not consulted.
terminalEventIgnoresError ==
    IF execution.Aborted THEN EventTypeGraphRunAborted
    ELSE EventTypeGraphRunSucceeded

\* A mutation of terminalEvent: the error is looked at before the abort flag.
terminalEventErrorFirst ==
    IF execution.Error THEN EventTypeGraphRunFailed
    ELSE IF execution.Aborted THEN EventTypeGraphRunAborted
    ELSE EventTypeGraphRunSucceeded

\* Run, lines 147-164: the terminal event chosen from the execution aggregate.
terminalEvent ==
    IF execution.Aborted THEN EventTypeGraphRunAborted
    ELSE IF execution.Error THEN EventTypeGraphRunFailed
    ELSE EventTypeGraphRunSucceeded

\* lines 140-141: all workers have returned; eventQueue is closed.
RunWait ==
    /\ runPc = "running"
    /\ WorkersDone
    /\ eventsClosed' = TRUE
    /\ runPc' = "drain"
    /\ UNCHANGED << gid, config, workers, readyQueue, queueClosed, pendingCount,
                    completedNodes, nodeState, edgeState, nodeRunSteps, eventQueue,
                    dispatcherPc, commandCh, sent, paused, ctxDone, execution, output,
                    followedEdges, nodeResult, variablePool, stmVars, serviceVars >>

\* lines 142-166 and the deferred close(outputCh): the terminal event, then
\* the stream is closed.
RunFinish ==
    /\ runPc = "drain"
    /\ DispatcherDone
    /\ output' = [output EXCEPT !.terminals = Append(@, terminalEvent),
                                !.closed = TRUE]
    /\ runPc' = "done"
    /\ UNCHANGED << gid, config, workers, readyQueue, queueClosed, pendingCount,
                    completedNodes, nodeState, edgeState, nodeRunSteps, eventQueue,
                    eventsClosed, dispatcherPc, commandCh, sent, paused, ctxDone,
                    execution, followedEdges, nodeResult, variablePool, stmVars, serviceVars >>

(***************************************************************************)
(* The engine's own steps, the caller's commands, the specification.       *)
(***************************************************************************)
EngineNext ==
    \/ RunStart
    \/ HandleCommand
    \/ WorkerTake
    \/ WorkerExit
    \/ CheckPaused
    \/ CondWait
    \/ Dedup
    \/ Begin
    \/ Started
    \/ Chunk
    \/ AttemptSucceeds
    \/ AttemptFails
    \/ ProcessEdge
    \/ EnqueueSend
    \/ Finish
    \/ Dispatch
    \/ DispatcherExit
    \/ RunWait
    \/ RunFinish

Next ==
    \/ EngineNext
    \/ \E cmd \in Commands : SendCommand(cmd)

Spec == Init /\ [][Next]_vars

(***************************************************************************)
(* A run whose caller cancels the context it passed to Run (or whose       *)
(* deadline passes), on an engine configured with a small max_node_steps.  *)
(***************************************************************************)
\* Run, line 97: the engine's context is derived from the caller's with
\* context.WithCancel, so it is done as soon as the caller's is; nothing
\* else changes (the execution is not marked aborted).
CallerCancel ==
    /\ runPc = "running"
    /\ ~ctxDone
    /\ ctxDone' = TRUE
    /\ UNCHANGED << gid, config, runPc, workers, readyQueue, queueClosed, pendingCount,
                    completedNodes, nodeState, edgeState, nodeRunSteps, eventQueue,
                    eventsClosed, dispatcherPc, commandCh, sent, paused, execution,
                    output, followedEdges, nodeResult, variablePool, stmVars, serviceVars >>

InitCtx == EngineStart({SmallNodeSteps}) /\ STMAtRest /\ ServicesAtRest

NextCtx ==
    \/ Next
    \/ CallerCancel

SpecCtx == InitCtx /\ [][NextCtx]_vars

(***************************************************************************)
(* Vocabulary of the properties.                                           *)
(***************************************************************************)
\* No goroutine of the engine can take a step: Run, the workers, the
\* dispatcher and the command handler are all blocked or have returned.
EngineStopped == ~ENABLED EngineNext

\* The engine is paused and not aborted: it waits for the caller's resume.
CallerHoldsPause == paused /\ ~execution.Aborted

RECURSIVE reachableFrom(_)
\* The nodes reachable from the set S along the edges.
reachableFrom(S) ==
    LET T == S \cup {Edges[e].Head : e \in {k \in EdgeIds : Edges[k].Tail \in S}}
    IN  IF T = S THEN S ELSE reachableFrom(T)
ReachableNodes == reachableFrom({RootNode})

\* Merge-join nodes and the predecessors of a node.
MergeJoins == {n \in Nodes : Len(GetIncomingEdges(n)) >= 2}
Predecessors(n) == {Edges[e].Tail : e \in SeqRange(GetIncomingEdges(n))}

NodeTerminalEvents == {EventTypeNodeRunSucceeded, EventTypeNodeRunFailed}
\* The number of succeeded/failed events written to the stream for node n.
terminalCount(n) ==
    Cardinality({k \in 1..Len(output.nodes[n]) : output.nodes[n][k] \in NodeTerminalEvents})
\* Node n has a node_run_started event on the stream.
HasStarted(n) == EventTypeNodeRunStarted \in SeqRange(output.nodes[n])
\* Node n is resolved: it has emitted succeeded or failed, or is marked Skipped.
Resolved(n) == terminalCount(n) >= 1 \/ nodeState[n] = NodeStateSkipped

RECURSIVE eventShape(_, _)
\* Reads a node's event sequence s against (started chunk*){1..attempts}
\* followed by one succeeded|failed: "none" (no event), "open" (started, no
\* terminal event yet), "closed" (complete), "bad" (not of that form).
eventShape(s, attempts) ==
    IF s = << >> THEN [st |-> "none", starts |-> 0]
    ELSE LET p == eventShape(SubSeq(s, 1, Len(s) - 1), attempts)
             e == s[Len(s)]
         IN  CASE e = EventTypeNodeRunStarted /\ p.st \in {"none", "open"}
                                              /\ p.starts < attempts ->
                       [st |-> "open", starts |-> p.starts + 1]
               [] e = EventTypeNodeStreamChunk /\ p.st = "open" -> p
               [] e \in NodeTerminalEvents /\ p.st = "open" ->
                       [st |-> "closed", starts |-> p.starts]
               [] OTHER -> [st |-> "bad", starts |-> p.starts]

(***************************************************************************)
(* C1.  Every run emits exactly one terminal graph event, one of           *)
(* graph_run_succeeded, graph_run_failed, graph_run_aborted: never two,    *)
(* and once the engine can take no further step (and is not merely held    *)
(* paused by the caller) the terminal event has been emitted.              *)
(***************************************************************************)
C1_ExactlyOneTerminalEvent ==
    /\ Len(output.terminals) <= 1
    /\ \A k \in 1..Len(output.terminals) : output.terminals[k] \in TerminalGraphEvents
    /\ (EngineStopped /\ ~CallerHoldsPause) => Len(output.terminals) = 1

(***************************************************************************)
(* C2.  When the run ends (here: with graph_run_succeeded, the claim's     *)
(* most favourable case) every node reachable from the root is accounted   *)
(* for exactly once: one node_run_succeeded event, or one node_run_failed  *)
(* event, or a Skipped marking, and not more than one of these.            *)
(***************************************************************************)
C2_ReachableNodesAccountedOnce ==
    output.terminals = << EventTypeGraphRunSucceeded >> =>
        \A n \in ReachableNodes :
            terminalCount(n) + (IF nodeState[n] = NodeStateSkipped THEN 1 ELSE 0) = 1

(***************************************************************************)
(* C3.  A merge-join node's node_run_started event comes after each of its *)
(* predecessors has emitted node_run_succeeded or node_run_failed or has   *)
(* been marked Skipped.                                                    *)
(***************************************************************************)
C3_JoinStartsAfterPredecessors ==
    \A n \in MergeJoins :
        HasStarted(n) => \A p \in Predecessors(n) : Resolved(p)

(***************************************************************************)
(* C4.  A merge-join target with at least one followed incoming edge is    *)
(* executed: in a run that ends graph_run_succeeded (nothing failed, no    *)
(* abort), every such target has started.                                  *)
(***************************************************************************)
C4_FollowedJoinIsExecuted ==
    output.terminals = << EventTypeGraphRunSucceeded >> =>
        \A n \in MergeJoins :
            (\E e \in followedEdges : Edges[e].Head = n) => HasStarted(n)

C6_AbortReleasesPausedWorkers ==
    (execution.Aborted /\ paused /\ EngineStopped) =>
        /\ \A w \in WorkerSet : w.pc # "condWait"
        /\ output.terminals = << EventTypeGraphRunAborted >>

(***************************************************************************)
(* C7.  After abort the pending counter reaches zero: when the aborted run *)
(* has ended (every worker has returned, graph_run_aborted is emitted),    *)
(* every queued or executing node id has been accounted for by a decrement.*)
(***************************************************************************)
C7_PendingZeroAfterAbort ==
    output.terminals = << EventTypeGraphRunAborted >> => pendingCount = 0

(***************************************************************************)
(* C8.  The output stream has the shape graph_run_started, node events,    *)
(* terminal graph event: no node event is written before graph_run_started *)
(* or after the terminal event, there is at most one terminal event, and   *)
(* the stream is closed exactly when the terminal event has been written.  *)
(***************************************************************************)
C8_StreamShape ==
    /\ output.misplaced = 0
    /\ (\E n \in Nodes : output.nodes[n] # << >>) => output.started
    /\ output.terminals # << >> => output.started
    /\ Len(output.terminals) <= 1
    /\ output.closed <=> output.terminals # << >>

\* C8: a closed stream that carries node events of two nodes and ends with
\* a terminal event.
C8_ClosedStreamWithNodeEvents ==
    /\ output.closed
    /\ Len(output.terminals) = 1
    /\ Cardinality({n \in Nodes : output.nodes[n] # << >>}) >= 2

\* The attempts the DSL gives node n: retry.max_retries + 1 under the Retry
\* strategy, one otherwise.
attemptsOfStrategy(n) ==
    IF ErrorStrategy(n) = ErrorStrategyRetry THEN MaxRetries + 1 ELSE 1

C10_FailedNodeFollowsOnlyFailBranch ==
    \A n \in Nodes :
        (ErrorStrategy(n) = ErrorStrategyFailBranch /\ nodeResult[n] = "failed") =>
            /\ \A e \in followedEdges :
                  Edges[e].Tail = n => Edges[e].SourceHandle = FailBranchSourceHandleFailed
            /\ output.terminals = << EventTypeGraphRunSucceeded >> =>
                  \A e \in SeqRange(GetOutgoingEdges(n)) :
                     Edges[e].SourceHandle = FailBranchSourceHandleFailed
                        => e \in followedEdges

\* The source handles with a fixed meaning; every other handle is a custom
\* (if/else branch) handle.
ReservedHandles ==
    {"source", FailBranchSourceHandleFailed, FailBranchSourceHandleSuccess}

(***************************************************************************)
(* C11.  An out-edge with a custom source handle is followed if and only   *)
(* if the finishing node's outputs carry a __branch__ equal to the handle; *)
(* in every other case (nil outputs, no __branch__, another value) it is   *)
(* marked Skipped.  Stated on the edges a worker's fan-out loop has passed.*)
(***************************************************************************)
C11_CustomHandleFollowedIffBranch ==
    \A w \in WorkerSet :
        w.pc = "edges" =>
            \A j \in 1..(w.i - 1) :
                LET e == GetOutgoingEdges(w.node)[j] IN
                Edges[e].SourceHandle \notin ReservedHandles =>
                    /\ e \in followedEdges <=> w.outputs = Edges[e].SourceHandle
                    /\ e \notin followedEdges => edgeState[e] = NodeStateSkipped

\* Node n has failed fatally: its last attempt failed and its strategy is
\* None, or Retry with the attempts used up.
FatallyFailed(n) ==
    /\ nodeResult[n] = "failed"
    /\ ErrorStrategy(n) \in {ErrorStrategyNone, ErrorStrategyRetry}

(***************************************************************************)
(* C12.  When a node with strategy None fails, or a Retry node fails on    *)
(* all its attempts, the run is marked fatally failed, none of the node's  *)
(* out-edges is followed, and the terminal event, once emitted, is not     *)
(* graph_run_succeeded: it is graph_run_failed unless an abort was applied *)
(* (graph_run_failed in every run in which the caller sent no abort).      *)
(***************************************************************************)
C12_FatalFailureFailsRun ==
    \A n \in Nodes :
        FatallyFailed(n) =>
            /\ execution.Error
            /\ \A e \in followedEdges : Edges[e].Tail # n
            /\ \A e \in SeqRange(GetOutgoingEdges(n)) : edgeState[e] # NodeStateTaken
            /\ output.terminals # << >> =>
                  /\ output.terminals[1] \in
                        {EventTypeGraphRunFailed, EventTypeGraphRunAborted}
                  /\ CommandAbort \notin SeqRange(sent) =>
                        output.terminals = << EventTypeGraphRunFailed >>

\* C12: a Retry node that failed on both attempts, with successors it did
\* not enqueue, in a run that ended graph_run_failed.
C12_RetryExhaustedRunFailed ==
    \E n \in Nodes :
        /\ ErrorStrategy(n) = ErrorStrategyRetry
        /\ nodeResult[n] = "failed"
        /\ GetOutgoingEdges(n) # << >>
        /\ Len(output.nodes[n]) >= 3
        /\ output.terminals = << EventTypeGraphRunFailed >>

\* Node n has failed and its strategy handled the failure locally.
LocallyFailed(n) ==
    \/ nodeResult[n] = "failed" /\ ErrorStrategy(n) = ErrorStrategyFailBranch
    \/ nodeResult[n] = "default" /\ ErrorStrategy(n) = ErrorStrategyDefaultValue

(***************************************************************************)
(* C13.  A failure of a FailBranch or DefaultValue node never marks the    *)
(* run fatally failed: as long as no node has failed fatally and the       *)
(* caller has sent no abort, the execution carries no error, and the       *)
(* terminal event, once emitted, is graph_run_succeeded.                   *)
(***************************************************************************)
C13_LocalFailureNotFatal ==
    ( /\ \E n \in Nodes : LocallyFailed(n)
      /\ \A n \in Nodes : ~FatallyFailed(n)
      /\ CommandAbort \notin SeqRange(sent) )
    => /\ ~execution.Error
       /\ output.terminals # << >> =>
             output.terminals = << EventTypeGraphRunSucceeded >>

\* C13: a run with a failed FailBranch node ended graph_run_succeeded.
C13_FailBranchFailureRunSucceeded ==
    /\ \E n \in Nodes :
          nodeResult[n] = "failed" /\ ErrorStrategy(n) = ErrorStrategyFailBranch
    /\ CommandAbort \notin SeqRange(sent)
    /\ output.terminals = << EventTypeGraphRunSucceeded >>

\* The events of type t for node n that are on the output stream or still
\* in the event queue.
emitted(n, t) ==
    Len(SelectSeq(output.nodes[n], LAMBDA x : x = t))
      + Len(SelectSeq(eventQueue, LAMBDA evt : evt.NodeID = n /\ evt.Type = t))

(***************************************************************************)
(* C14.  When a DefaultValue node fails, its default map is in its         *)
(* variable-pool slot before any of its out-edges is followed, exactly one *)
(* node_run_succeeded event and no node_run_failed event is emitted for it *)
(* (one is on the stream or in the queue unless the cancelled dispatcher   *)
(* dropped it; in the queue it carries used_default_value = true), and     *)
(* fan-out goes as for a success: with node_failed false,                  *)
(* following plain and success-branch edges and no fail-branch edge.       *)
(***************************************************************************)
C14_DefaultValueActsAsSuccess ==
    \A n \in Nodes :
        (G.Strategy[n] = ErrorStrategyDefaultValue
            /\ nodeResult[n] \notin {"none", "succeeded"}) =>
            /\ nodeResult[n] = "default"
            /\ variablePool[n] = PoolDefault
            /\ emitted(n, EventTypeNodeRunFailed) = 0
            /\ emitted(n, EventTypeNodeRunSucceeded) <= 1
            /\ ~ctxDone => emitted(n, EventTypeNodeRunSucceeded) = 1
            /\ \A k \in 1..Len(eventQueue) :
                  (eventQueue[k].NodeID = n
                      /\ eventQueue[k].Type = EventTypeNodeRunSucceeded)
                  => eventQueue[k].UsedDefaultValue
            /\ \A w \in WorkerSet :
                  (w.node = n /\ w.pc \in {"edges", "send"}) =>
                      /\ ~w.nodeFailed
                      /\ \A j \in 1..(w.i - 1) :
                            LET e == GetOutgoingEdges(n)[j] IN
                            /\ Edges[e].SourceHandle
                                  \in {"source", FailBranchSourceHandleSuccess}
                                  => e \in followedEdges
                            /\ Edges[e].SourceHandle = FailBranchSourceHandleFailed
                                  => e \notin followedEdges

\* C14: a DefaultValue node failed, its plain out-edge was followed and its
\* events on the stream are started, (chunks,) succeeded.
C14_DefaultValueSuccessorEnqueued ==
    \E n \in Nodes :
        /\ nodeResult[n] = "default"
        /\ \E e \in followedEdges : Edges[e].Tail = n /\ edgeState[e] = NodeStateTaken
        /\ emitted(n, EventTypeNodeRunSucceeded) = 1
        /\ output.nodes[n] # << >>
        /\ output.nodes[n][Len(output.nodes[n])] = EventTypeNodeRunSucceeded

\* The events of node n in emission order, as far as they are on the output
\* stream or still in the event queue.
eventsOf(n) ==
    output.nodes[n] \o
      [k \in 1..Len(SelectSeq(eventQueue, LAMBDA evt : evt.NodeID = n)) |->
          SelectSeq(eventQueue, LAMBDA evt : evt.NodeID = n)[k].Type]

(***************************************************************************)
(* C15.  A Retry node with max_retries = r is run at most r + 1 times and  *)
(* not again after the first attempt that succeeds; a node with any other  *)
(* strategy that is executed is run exactly once.  Runs are counted by the *)
(* workers' attempt counters and by the node_run_started events emitted    *)
(* (all of them are on the stream or in the queue while the run is not     *)
(* cancelled).                                                             *)
(***************************************************************************)
C15_AttemptsBounded ==
    \A n \in Nodes :
        /\ emitted(n, EventTypeNodeRunStarted) <= attemptsOfStrategy(n)
        /\ \A w \in WorkerSet :
              (w.node = n /\ w.pc \in {"attempt", "stream"}) =>
                  /\ w.attempt + 1 <= attemptsOfStrategy(n)
                  /\ nodeResult[n] = "none"
        /\ (nodeResult[n] = "succeeded" /\ ~ctxDone) =>
              eventsOf(n)[Len(eventsOf(n))] = EventTypeNodeRunSucceeded
        /\ (nodeResult[n] # "none" /\ ErrorStrategy(n) # ErrorStrategyRetry /\ ~ctxDone)
              => emitted(n, EventTypeNodeRunStarted) = 1

\* C15: a Retry node's first attempt failed and its second one succeeded:
\* started, started, succeeded on the stream, and the node is finished.
C15_RetrySucceededOnSecondAttempt ==
    \E n \in Nodes :
        /\ ErrorStrategy(n) = ErrorStrategyRetry
        /\ nodeResult[n] = "succeeded"
        /\ n \in completedNodes
        /\ output.nodes[n] = << EventTypeNodeRunStarted, EventTypeNodeRunStarted,
                                EventTypeNodeRunSucceeded >>
        /\ \A w \in WorkerSet : w.pc \in {"idle", "exited"}

\* The positions of a worker inside executeNode.
Executing == {"begin", "attempt", "stream", "edges", "send", "fin"}

(***************************************************************************)
(* C29.  No node is executed more than once in a run: at most one worker   *)
(* is executing a given node, the executions begun (the step counter) are  *)
(* no more than the nodes marked completed, and a node's node_run_started  *)
(* events are no more than the attempts of one execution.                  *)
(***************************************************************************)
C29_NodeExecutedOnce ==
    /\ \A w \in WorkerSet :
          w.pc \in Executing =>
              /\ CopiesIn(w, workers) = 1
              /\ w.node \in completedNodes
              /\ \A w2 \in WorkerSet :
                    (w2.pc \in Executing /\ w2.node = w.node) => w2 = w
    /\ nodeRunSteps <= Cardinality(completedNodes)
    /\ \A n \in Nodes : emitted(n, EventTypeNodeRunStarted) <= attemptsOfStrategy(n)

\* C29: a node was enqueued over at least two in-edges, it has run, and the
\* queue is empty again with no worker holding a node id: the later dequeue
\* did not execute it.
C29_DuplicateDequeueDiscarded ==
    \E n \in Nodes :
        /\ Cardinality({e \in SeqRange(GetIncomingEdges(n)) :
                           edgeState[e] = NodeStateTaken}) >= 2
        /\ nodeResult[n] = "succeeded"
        /\ readyQueue = << >>
        /\ \A w \in WorkerSet : w.pc \in {"idle", "exited"}
        /\ nodeRunSteps = Cardinality(completedNodes)

(***************************************************************************)
(* C30.  As claimed: the workers never all block writing to the ready      *)
(* queue (a state that no later step leaves, so that the run does not      *)
(* terminate).                                                             *)
(***************************************************************************)
C30_WorkersNeverAllBlockedOnSend ==
    ~ ( /\ runPc = "running"
        /\ WorkerSet # {}
        /\ \A w \in WorkerSet : w.pc = "send"
        /\ Len(readyQueue) = ReadyQueueCap )

(***************************************************************************)
(* The ready queue and its close.                                          *)
(***************************************************************************)
\* A worker that holds a node id it received and has not called
\* nodeFinished for.
HoldsNode(w) == w.pc \notin {"idle", "exited"}

\* C31: the ready queue is closed only with the pending counter at zero, no
\* node id queued and no worker holding a node; once closed it stays closed,
\* nothing is written to it and the counter does not move again (so the
\* close condition is met once).
C31_QueueClosedOnceAtZeroPending ==
    [][ /\ queueClosed =>
            /\ pendingCount = 0
            /\ readyQueue = << >>
            /\ \A w \in WorkerSet : ~HoldsNode(w)
        /\ queueClosed =>
            /\ queueClosed'
            /\ readyQueue' = readyQueue
            /\ pendingCount' = pendingCount
        /\ (~queueClosed /\ queueClosed') =>
            /\ pendingCount' = 0
            /\ readyQueue' = << >> ]_vars

\* A run over the join graph with two workers ended: the queue was closed
\* after nodes had been enqueued by fan-out, and every worker returned.
C31_QueueClosedAfterFanOut ==
    /\ queueClosed
    /\ runPc = "done"
    /\ config.MaxWorkers = 2
    /\ Cardinality(completedNodes) >= 3
    /\ pendingCount = 0

(***************************************************************************)
(* The dispatcher and the event queue.                                     *)
(***************************************************************************)
\* A worker inside runNodeOnce or executeNode whose next step writes a node
\* event to eventQueue, with the queue full.
BlockedOnEventWrite(w) ==
    /\ w.pc \in {"attempt", "stream"}
    /\ ~(w.pc = "attempt" /\ w.attempt > 0 /\ RetryInterval > 0 /\ ctxDone)
    /\ Len(eventQueue) = EventQueueCap

\* C32, as claimed: the dispatcher returns only on the closed and drained
\* event queue, also after the context has been cancelled, so that no worker
\* is left blocked on a write to a full event queue nobody reads.
C32_DispatcherConsumesUntilClosed ==
    /\ dispatcherPc = "exited" => (eventsClosed /\ eventQueue = << >>)
    /\ ~ ( /\ dispatcherPc = "exited"
           /\ \E w \in WorkerSet : BlockedOnEventWrite(w) )

(***************************************************************************)
(* C35.  As claimed: after a resume command has been processed every       *)
(* worker that was blocked on the pause barrier continues, whatever the    *)
(* interleaving: with the paused flag clear, no abort applied and no       *)
(* command left to handle, no worker is parked in pauseCond.Wait() (a      *)
(* worker parked there is woken by nothing the engine does, so the run     *)
(* would have no terminal event at all).                                   *)
(***************************************************************************)
C35_ResumeReleasesEveryWaiter ==
    (~paused /\ ~execution.Aborted /\ commandCh = << >>) =>
        \A w \in WorkerSet : w.pc # "condWait"

(***************************************************************************)
(* Skip propagation.                                                       *)
(***************************************************************************)
\* Every in-edge, respectively out-edge, of node n is Skipped.
AllInEdgesSkipped(n) ==
    \A e \in SeqRange(GetIncomingEdges(n)) : edgeState[e] = NodeStateSkipped
AllOutEdgesSkipped(n) ==
    \A e \in SeqRange(GetOutgoingEdges(n)) : edgeState[e] = NodeStateSkipped

\* C36: between the steps of the workers, a node with incoming edges is
\* marked Skipped if and only if every one of its incoming edges is Skipped;
\* every outgoing edge of a Skipped node is Skipped (and so, by the first
\* part, are the heads that have no other live in-edge); a Skipped node is
\* never enqueued, taken by a worker or run, and emits no event.
C36_SkippedIffAllInEdgesSkipped ==
    \A n \in Nodes :
        /\ GetIncomingEdges(n) # << >> =>
              (nodeState[n] = NodeStateSkipped <=> AllInEdgesSkipped(n))
        /\ nodeState[n] = NodeStateSkipped =>
              /\ AllOutEdgesSkipped(n)
              /\ n \notin SeqRange(readyQueue)
              /\ n \notin completedNodes
              /\ \A w \in WorkerSet : w.node # n
              /\ nodeResult[n] = "none"
              /\ emitted(n, EventTypeNodeRunStarted) = 0
              /\ output.nodes[n] = << >>

\* C36: the if/else root took another branch than b1: P was skipped, the
\* skip went on over P -> Q to Q, and the run ended without running either.
C36_SkipTravelledDownTheChain ==
    /\ G = GraphSkipChain
    /\ nodeState["P"] = NodeStateSkipped
    /\ nodeState["Q"] = NodeStateSkipped
    /\ edgeState[2] = NodeStateSkipped
    /\ output.terminals = << EventTypeGraphRunSucceeded >>

(***************************************************************************)
(* C37.  As claimed: the failed event of an attempt that is not final is   *)
(* never forwarded; for each node at most one node_run_failed graph event  *)
(* is emitted per run: none unless the node's failure is final (FailBranch,*)
(* None, or Retry with its attempts used up), so none when an attempt      *)
(* succeeds or DefaultValue is applied, and exactly one on the stream of   *)
(* the ended run when the failure is final.                                *)
(***************************************************************************)
failedOnStream(n) ==
    Len(SelectSeq(output.nodes[n], LAMBDA x : x = EventTypeNodeRunFailed))

C37_OneFailedEventIffFinalFailure ==
    \A n \in Nodes :
        /\ emitted(n, EventTypeNodeRunFailed) <= 1
        /\ nodeResult[n] # "failed" => emitted(n, EventTypeNodeRunFailed) = 0
        /\ (runPc = "done" /\ nodeResult[n] = "failed") => failedOnStream(n) = 1

(***************************************************************************)
(* C33.  As claimed: the terminal event is graph_run_succeeded only if     *)
(* every node id that was enqueued has been executed, so that no id is     *)
(* left in the ready queue or counted as pending; in particular not when   *)
(* the caller's context was cancelled, with no abort command, while node   *)
(* ids were still queued or executing.                                     *)
(***************************************************************************)
C33_SucceededOnlyIfAllExecuted ==
    output.terminals = << EventTypeGraphRunSucceeded >> =>
        /\ readyQueue = << >>
        /\ pendingCount = 0

(***************************************************************************)
(* C34.  As claimed: for any worker count at most max_node_steps nodes     *)
(* begin execution, and once a node has been refused for the step limit    *)
(* (the execution is failed with no abort and no node failure) the         *)
(* terminal event is graph_run_failed.                                     *)
(***************************************************************************)
C34_AtMostMaxNodeStepsBegin ==
    /\ nodeRunSteps <= config.MaxNodeSteps
    /\ (output.terminals # << >> /\ execution.Error /\ ~execution.Aborted)
           => output.terminals = << EventTypeGraphRunFailed >>

(***************************************************************************)
(* The short-term memory under concurrent Append calls, compression runs   *)
(* and Clear calls on one conversation.                                    *)
(***************************************************************************)
\* SaveStateIfVersion, lines 150-153: HGET version; a missing hash reads as 0.
HashVersion == IF store.present THEN store.state.Version ELSE 0

\* RedisSTM.LoadState: the fields of the hash, or the empty state without one.
LoadState == IF store.present THEN store.state ELSE EmptySTMState

\* A mutation of SaveStateIfVersion: the write is not conditional (SaveState).
SaveStateUnconditional(state, expectedVersion) ==
    [saved |-> TRUE, store |-> [present |-> TRUE, state |-> state]]

\* RedisSTM.SaveStateIfVersion: under WATCH, the fields are written if the
\* stored version is the expected one; the result is what the hash becomes.
SaveStateIfVersion(state, expectedVersion) ==
    IF HashVersion = expectedVersion
    THEN [saved |-> TRUE, store |-> [present |-> TRUE, state |-> state]]
    ELSE [saved |-> FALSE, store |-> store]

Max(a, b) == IF a >= b THEN a ELSE b

\* The mutations committed so far: Append commits, compression write-backs
\* and Clears.
Commits == Len(hist.order) + hist.otherCommits

\* Coordinator.Memorize, line 225, and RedisSTM.Append, lines 207-214: a
\* client starts an Append call with the two messages of a turn.
AppendBegin(a) ==
    /\ appenders[a].pc = "idle"
    /\ hist.calls < hist.workload.appends
    /\ appenders' = [appenders EXCEPT ![a] =
                        [IdleAppender EXCEPT !.pc = "load", !.attempt = 1,
                                             !.call = hist.calls + 1]]
    /\ hist' = [hist EXCEPT !.calls = @ + 1,
                            !.results = Append(@, "pending"),
                            !.lost = Append(@, 0)]
    /\ UNCHANGED << engineVars, serviceVars, store, compressor >>

\* Append, lines 216-221: LoadState.
AppendLoad(a) ==
    /\ appenders[a].pc = "load"
    /\ appenders' = [appenders EXCEPT ![a].state = LoadState, ![a].pc = "cas"]
    /\ UNCHANGED << engineVars, serviceVars, store, compressor, hist >>

\* Append, lines 223-243: the messages are appended to the loaded state, the
\* version is incremented and the state is saved if the version is still the
\* loaded one; a lost CAS is retried, the maxRetry-th one returns the
\* version-conflict sentinel.
AppendCAS(a) ==
    /\ appenders[a].pc = "cas"
    /\ LET me == appenders[a]
           baseVersion == me.state.Version
           state == [me.state EXCEPT !.RecentMessages = @ \o Turn(me.call),
                                     !.Version = baseVersion + 1]
           r == SaveStateIfVersion(state, baseVersion)
       IN  /\ store' = r.store
           /\ IF r.saved
              THEN /\ appenders' = [appenders EXCEPT ![a] = IdleAppender]
                   /\ hist' = [hist EXCEPT
                                 !.results[me.call] = "ok",
                                 !.order = Append(@, me.call),
                                 !.maxVersion = Max(@, state.Version),
                                 !.lastCommit = << HashVersion, state.Version >>,
                                 !.quiet = FALSE]
              ELSE IF me.attempt < maxRetry
              THEN /\ appenders' = [appenders EXCEPT ![a] =
                                      [me EXCEPT !.pc = "load",
                                                 !.attempt = @ + 1,
                                                 !.state = EmptySTMState]]
                   /\ hist' = [hist EXCEPT !.lost[me.call] = @ + 1]
              ELSE /\ appenders' = [appenders EXCEPT ![a] = IdleAppender]
                   /\ hist' = [hist EXCEPT !.lost[me.call] = @ + 1,
                                           !.results[me.call] = "conflict"]
    /\ UNCHANGED << engineVars, serviceVars, compressor >>

\* Append, lines 217-219 and 229-231: a Redis error ends the call with that
\* error, nothing written.
AppendRedisError(a) ==
    /\ appenders[a].pc \in {"load", "cas"}
    /\ hist.failures < hist.workload.failures
    /\ appenders' = [appenders EXCEPT ![a] = IdleAppender]
    /\ hist' = [hist EXCEPT !.results[appenders[a].call] = "error",
                            !.failures = @ + 1]
    /\ UNCHANGED << engineVars, serviceVars, store, compressor >>

\* RedisSTM.Clear: DEL of the hash (which changes nothing if there is none).
Clear ==
    /\ hist.clears < hist.workload.clears
    /\ store' = NoHash
    /\ hist' = IF store.present
               THEN [hist EXCEPT !.clears = @ + 1,
                                 !.otherCommits = @ + 1,
                                 !.lastCommit = << HashVersion, 0 >>,
                                 !.quiet = FALSE]
               ELSE [hist EXCEPT !.clears = @ + 1]
    /\ UNCHANGED << engineVars, serviceVars, appenders, compressor >>

\* A mutation of SelectMessagesForCompression: only the oldest turn is taken.
SelectOldestTurnForCompression(messages, minRecentTurns) ==
    IF Len(messages) <= minRecentTurns * 2
    THEN [toCompress |-> << >>, toKeep |-> messages]
    ELSE [toCompress |-> SubSeq(messages, 1, 2),
          toKeep     |-> SubSeq(messages, 3, Len(messages))]

\* SelectMessagesForCompression
SelectMessagesForCompression(messages, minRecentTurns) ==
    LET minRecentMsgs == minRecentTurns * 2
        cutoff == Len(messages) - minRecentMsgs
    IN  IF Len(messages) <= minRecentMsgs
        THEN [toCompress |-> << >>, toKeep |-> messages]
        ELSE [toCompress |-> SubSeq(messages, 1, cutoff),
              toKeep     |-> SubSeq(messages, cutoff + 1, Len(messages))]

\* GatewayCompressor.Compress: the new summary is made from the existing one
\* and the messages; the key facts are the ones the model extracted from the
\* messages merged with the existing ones, or, when its answer does not
\* parse, the existing ones.
Compress(existingSummary, messagesToCompress, existingFacts, parsed) ==
    [CompressedSummary |-> existingSummary \o messagesToCompress,
     KeyFacts |->
        IF parsed
        THEN existingFacts \cup
               {messagesToCompress[k].Call : k \in 1..Len(messagesToCompress)}
        ELSE existingFacts]

\* EstimateSTMContext with an estimator that counts no content tokens: the
\* per-message and per-section overheads.
EstimateSTMContext(state) ==
    (IF state.GatewaySummary # << >> THEN 4 ELSE 0)
      + (IF state.KeyFacts # {} THEN 4 ELSE 0)
      + 4 * Len(state.RecentMessages)

\* The observer at the end of a compression run that leaves the hash st.
EndRun(h, outcome, st) ==
    [h EXCEPT !.afterRuns = IF Len(@) = 2 THEN << @[2], st >> ELSE Append(@, st),
              !.outcomes = IF Len(@) = 2 THEN << @[2], outcome >> ELSE Append(@, outcome),
              !.quietBetween = h.quiet,
              !.quiet = TRUE]

\* compressAsync, lines 432-477: with the compression lock held (one run at
\* a time), LoadState and the split; nothing to compress ends the run.
CompressLoad ==
    /\ compressor.pc = "idle"
    /\ hist.runs < hist.workload.runs
    /\ LET state == LoadState
           sel == SelectMessagesForCompression(state.RecentMessages, MinRecentTurns)
           h == [hist EXCEPT !.runs = @ + 1]
       IN  IF sel.toCompress = << >>
           THEN /\ compressor' = IdleCompressor
                /\ hist' = EndRun(h, "noop", store)
           ELSE /\ compressor' = [IdleCompressor EXCEPT !.pc = "gateway",
                                                        !.state = state,
                                                        !.toCompress = sel.toCompress,
                                                        !.toKeep = sel.toKeep,
                                                        !.commitsAtLoad = Commits]
                /\ hist' = h
    /\ UNCHANGED << engineVars, serviceVars, store, appenders >>

\* compressAsync, lines 485-487: the gateway compresses.
CompressGateway ==
    /\ compressor.pc = "gateway"
    /\ \E parsed \in BOOLEAN :
          compressor' = [compressor EXCEPT
                            !.pc = "reload",
                            !.result = Compress(compressor.state.GatewaySummary,
                                                compressor.toCompress,
                                                compressor.state.KeyFacts, parsed)]
    /\ UNCHANGED << engineVars, serviceVars, store, appenders, hist >>

\* compressAsync, lines 488-494, 498-504 and 528-534: the gateway or Redis
\* fails and the run ends, nothing written.
CompressFails ==
    /\ compressor.pc \in {"gateway", "reload", "cas"}
    /\ hist.failures < hist.workload.failures
    /\ compressor' = IdleCompressor
    /\ hist' = EndRun([hist EXCEPT !.failures = @ + 1], "failed", store)
    /\ UNCHANGED << engineVars, serviceVars, store, appenders >>

\* compressAsync, lines 496-513: LoadState again; a version other than the
\* one loaded first discards the result.
CompressReload ==
    /\ compressor.pc = "reload"
    /\ LET currentState == LoadState
       IN  IF currentState.Version # compressor.state.Version
           THEN /\ compressor' = IdleCompressor
                /\ hist' = EndRun(hist, "discarded", store)
           ELSE /\ compressor' = [compressor EXCEPT !.pc = "cas",
                                                    !.currentState = currentState]
                /\ UNCHANGED hist
    /\ UNCHANGED << engineVars, serviceVars, store, appenders >>

\* compressAsync, lines 515-541: the reloaded state takes the summary, the
\* key facts and the kept messages, and is saved if the version is still the
\* reloaded one.  time.Now().Unix() is modelled by the number of the run.
CompressCAS ==
    /\ compressor.pc = "cas"
    /\ LET expectedVersion == compressor.currentState.Version
           updated == [compressor.currentState EXCEPT
                          !.GatewaySummary = compressor.result.CompressedSummary,
                          !.KeyFacts = compressor.result.KeyFacts,
                          !.RecentMessages = compressor.toKeep,
                          !.LastCompressedAt = hist.runs,
                          !.CompressedTurnCount = @ + (Len(compressor.toCompress) \div 2),
                          !.Version = expectedVersion + 1]
           currentState == [updated EXCEPT !.TokenEstimate = EstimateSTMContext(updated)]
           r == SaveStateIfVersion(currentState, expectedVersion)
           unseen == SeqRange(LoadState.RecentMessages)
                        \ SeqRange(compressor.state.RecentMessages)
       IN  /\ store' = r.store
           /\ compressor' = IdleCompressor
           /\ IF r.saved
              THEN hist' = EndRun([hist EXCEPT
                                      !.otherCommits = @ + 1,
                                      !.maxVersion = Max(@, currentState.Version),
                                      !.lastCommit = << HashVersion, currentState.Version >>,
                                      !.staleWrite = @ \/ Commits # compressor.commitsAtLoad,
                                      !.removed = @ \cup
                                         (unseen \ SeqRange(currentState.RecentMessages))],
                                  "committed", r.store)
              ELSE hist' = EndRun(hist, "conflict", r.store)
    /\ UNCHANGED << engineVars, serviceVars, appenders >>

\* One conversation's STM, from each initial hash and under each workload;
\* the engine stays as built.
InitSTM ==
    /\ EngineInit
    /\ gid = 1
    /\ config.MaxWorkers = 1
    /\ store \in InitialHashes
    /\ appenders = [a \in Appenders |-> IdleAppender]
    /\ compressor = IdleCompressor
    /\ \E workload \in Workloads : hist = NoHistory(store, workload)
    /\ ServicesAtRest

NextSTM ==
    \/ \E a \in Appenders : AppendBegin(a)
    \/ \E a \in Appenders : AppendLoad(a)
    \/ \E a \in Appenders : AppendCAS(a)
    \/ \E a \in Appenders : AppendRedisError(a)
    \/ Clear
    \/ CompressLoad
    \/ CompressGateway
    \/ CompressFails
    \/ CompressReload
    \/ CompressCAS

SpecSTM == InitSTM /\ [][NextSTM]_vars

\* The Append calls that have returned success.
Succeeded == {c \in 1..hist.calls : hist.results[c] = "ok"}

\* How often message m occurs in the stored recent_messages.
occurrences(m) == Len(SelectSeq(LoadState.RecentMessages, LAMBDA x : x = m))

(***************************************************************************)
(* C16.  Append is linearizable: as long as nothing but Append calls has   *)
(* mutated the conversation, the stored version is the initial version     *)
(* plus the number of calls that have returned success, and                *)
(* recent_messages is the initial messages followed by the messages of     *)
(* exactly those calls, each once.                                         *)
(***************************************************************************)
C16_AppendLinearizable ==
    hist.otherCommits = 0 =>
        /\ LoadState.Version = hist.initialVersion + Cardinality(Succeeded)
        /\ Len(LoadState.RecentMessages)
              = Len(hist.initialMessages) + 2 * Cardinality(Succeeded)
        /\ SubSeq(LoadState.RecentMessages, 1, Len(hist.initialMessages))
              = hist.initialMessages
        /\ \A c \in 1..hist.calls :
              \A k \in 1..2 :
                 occurrences(Turn(c)[k]) = IF c \in Succeeded THEN 1 ELSE 0

\* C16: two calls ran concurrently, one of them lost a CAS, both have
\* returned success and no call is under way.
C16_ConcurrentAppendsBothStored ==
    /\ hist.otherCommits = 0
    /\ Cardinality(Succeeded) >= 2
    /\ \E c \in Succeeded : hist.lost[c] >= 1
    /\ \A a \in Appenders : appenders[a].pc = "idle"

(***************************************************************************)
(* C17.  As claimed: a compression whose write-back commits has seen no    *)
(* mutation commit since its initial load, and its write removes no        *)
(* message from recent_messages that it had not loaded.                    *)
(***************************************************************************)
C17_CompressionYieldsToMutations ==
    /\ ~hist.staleWrite
    /\ hist.removed = {}

(***************************************************************************)
(* C18.  As claimed: the stored version never falls below a version stored *)
(* before, and every committed mutation (Append, compression write-back,   *)
(* Clear) leaves a version higher than the one it found.                   *)
(***************************************************************************)
C18_VersionStrictlyIncreasing ==
    /\ LoadState.Version >= hist.maxVersion
    /\ hist.lastCommit # << >> => hist.lastCommit[2] > hist.lastCommit[1]

(***************************************************************************)
(* C19.  An Append call makes at most 5 load-and-CAS attempts; it returns  *)
(* with the CAS that commits; it returns the version-conflict sentinel if  *)
(* and only if it has lost 5 CAS attempts; and a call that returned the    *)
(* sentinel or an error has none of its messages in the stored state.      *)
(***************************************************************************)
C19_AppendRetriesBounded ==
    /\ \A c \in 1..hist.calls :
          /\ hist.lost[c] <= 5
          /\ hist.results[c] = "conflict" <=> hist.lost[c] = 5
          /\ hist.results[c] = "ok" => hist.lost[c] < 5
          /\ hist.results[c] \in {"conflict", "error"} =>
                \A k \in 1..2 : occurrences(Turn(c)[k]) = 0
    /\ \A a \in Appenders :
          appenders[a].pc # "idle" =>
              /\ hist.results[appenders[a].call] = "pending"
              /\ appenders[a].attempt = hist.lost[appenders[a].call] + 1
              /\ appenders[a].attempt <= 5

\* C19: a call has returned the sentinel after five lost attempts while
\* other calls committed.
C19_AppendGaveUp ==
    \E c \in 1..hist.calls :
        /\ hist.results[c] = "conflict"
        /\ hist.lost[c] = 5
        /\ Cardinality(Succeeded) >= 4

\* The fields of a hash that the claim of idempotence compares.
comparedFields(hash) ==
    [present             |-> hash.present,
     GatewaySummary      |-> hash.state.GatewaySummary,
     KeyFacts            |-> hash.state.KeyFacts,
     RecentMessages      |-> hash.state.RecentMessages,
     CompressedTurnCount |-> hash.state.CompressedTurnCount,
     Version             |-> hash.state.Version]

(***************************************************************************)
(* C20.  Two compression runs back to back, the first of which completed   *)
(* (it wrote its result back, or found too few messages to compress), with *)
(* no Append or Clear committed before the second one ended: the stored    *)
(* state after the second run has the gateway summary, key facts, recent   *)
(* messages, compressed-turn count and version it had after the first.     *)
(***************************************************************************)
C20_CompressionIdempotent ==
    ( /\ Len(hist.afterRuns) = 2
      /\ hist.quietBetween
      /\ hist.outcomes[1] \in {"committed", "noop"} )
    => comparedFields(hist.afterRuns[2]) = comparedFields(hist.afterRuns[1])

\* C20: a run that compressed and wrote back, directly followed by a run
\* that found nothing to compress.
C20_SecondRunAfterCommittedRun ==
    /\ Len(hist.afterRuns) = 2
    /\ hist.quietBetween
    /\ hist.outcomes[1] = "committed"
    /\ hist.afterRuns[1].state.GatewaySummary # << >>
    /\ compressor.pc = "idle"

(***************************************************************************)
(* Repository.EnsureConversationOwnership: one statement,                  *)
(*   INSERT .. VALUES (id, org, tenant, NOW(), NOW())                      *)
(*   ON CONFLICT (conversation_id) DO UPDATE SET updated_at = NOW()        *)
(*   WHERE conversations.org_id = EXCLUDED.org_id                          *)
(*     AND conversations.tenant_id = EXCLUDED.tenant_id                    *)
(*   RETURNING conversation_id                                             *)
(* which the database runs atomically per conversation_id.  No row         *)
(* returned (sql.ErrNoRows) becomes the conversation_id_conflict error.    *)
(***************************************************************************)
ErrNil == "nil"
ErrConversationIDConflict == "conversation_id_conflict"

\* A mutation of OwnedBy: the WHERE clause compares org_id only.
OwnedByOrgOnly(row, orgID, tenantID) == row.org_id = orgID

\* The WHERE clause of the DO UPDATE branch.
OwnedBy(row, orgID, tenantID) ==
    row.org_id = orgID /\ row.tenant_id = tenantID

\* The error returned and the table the statement leaves.
EnsureConversationOwnership(conversationID, orgID, tenantID) ==
    LET row == conversations[conversationID] IN
    IF ~row.present
    THEN [err   |-> ErrNil,
          table |-> [conversations EXCEPT ![conversationID] =
                        [present |-> TRUE, org_id |-> orgID, tenant_id |-> tenantID,
                         created_at |-> now, updated_at |-> now]]]
    ELSE IF OwnedBy(row, orgID, tenantID)
         THEN [err   |-> ErrNil,
               table |-> [conversations EXCEPT ![conversationID].updated_at = now]]
         ELSE [err |-> ErrConversationIDConflict, table |-> conversations]

\* WorkflowHandler.ensureConversationOwnership, lines 67-69, with the
\* handler's own test of req.ConversationID: the repository is asked only
\* for a scoped request that names a conversation.
ensureNeeded(scope, conversationID) ==
    scope # NoScope /\ conversationID # ""

\* A mutation of rejected: the handler goes on whatever the check returned.
rejectedNever(err) == FALSE

\* RunWorkflow line 256, RunWorkflowStream line 386: "err != nil" ends the
\* handler.
rejected(err) == err # ErrNil

\* RunWorkflow / RunWorkflowStream, step 3: the ownership write check; a
\* conflict is answered 409 conversation_id_conflict and the handler returns.
HandleEnsure(r) ==
    LET req == requests[r] IN
    /\ req.pc = "received"
    /\ IF ensureNeeded(req.scope, req.conversation_id)
       THEN LET res == EnsureConversationOwnership(req.conversation_id,
                                                   req.scope.OrgID, req.scope.TenantID)
            IN /\ conversations' = res.table
               /\ now' = now + 1
               /\ requests' = [requests EXCEPT ![r] =
                     IF rejected(res.err)
                     THEN [req EXCEPT !.pc = "done",
                                      !.response = "409 conversation_id_conflict"]
                     ELSE [req EXCEPT !.pc = "ensured"]]
       ELSE /\ requests' = [requests EXCEPT ![r].pc = "ensured"]
            /\ UNCHANGED << conversations, now >>
    /\ UNCHANGED << engineVars, stmVars, lockVars, mtmVars, gatewayVars, agentVars, runs >>

\* Step 4 and Repository.CreateRun: the run row is inserted with the
\* handler's status, RunStatusRunning (CreateRun's default for an empty
\* status is the same value).
HandleCreateRun(r) ==
    LET req == requests[r] IN
    /\ req.pc = "ensured"
    /\ runs' = [runs EXCEPT ![r] =
                  [present |-> TRUE, org_id |-> req.scope.OrgID,
                   tenant_id |-> req.scope.TenantID,
                   conversation_id |-> req.conversation_id,
                   status |-> RunStatusRunning,
                   statuses |-> << RunStatusRunning >>]]
    /\ requests' = [requests EXCEPT ![r] =
                      [req EXCEPT !.pc = "created", !.status = RunStatusRunning]]
    /\ UNCHANGED << engineVars, stmVars, lockVars, mtmVars, gatewayVars, agentVars,
                    conversations, now >>

\* A mutation of RunSyncStatus: a run without error keeps its status.
RunSyncStatusUnset(execErr) ==
    IF execErr THEN RunStatusFailed ELSE RunStatusRunning

\* RunWorkflow, lines 304-313: the status of the run after RunSync.
RunSyncStatus(execErr) ==
    IF execErr THEN RunStatusFailed ELSE RunStatusSucceeded

\* RunWorkflowStream, lines 443-466: finalStatus after the event loop, from
\* the type of the terminal graph event.
StreamFinalStatus(terminal) ==
    IF terminal = EventTypeGraphRunFailed THEN RunStatusFailed
    ELSE RunStatusSucceeded

\* WorkflowRunner.RunSync: the error it returns for a run that ended with
\* the given terminal graph event ("" when RunFromDSL failed and there was no
\* event stream).  A failed or aborted event carries a non-empty error text
\* (engine.go:148-156), which RunSync turns into an error.
RunSyncErr(terminal) == terminal # EventTypeGraphRunSucceeded

\* RunWorkflow, steps 5 and 6: the workflow is run to its end; a memory
\* enabled LLM node of it may write the STM of the request's conversation.
RunSync(r) ==
    LET req == requests[r] IN
    /\ req.pc = "created" /\ ~req.stream
    /\ \E terminal \in TerminalGraphEvents \cup {""} :
       \E wrote \in (IF req.conversation_id = "" THEN {FALSE} ELSE BOOLEAN) :
          requests' = [requests EXCEPT ![r] =
             [req EXCEPT !.pc = "executed", !.executed = TRUE, !.stmWrite = wrote,
                         !.terminal = terminal,
                         !.status = RunSyncStatus(RunSyncErr(terminal)),
                         !.response = "200"]]
    /\ UNCHANGED << engineVars, stmVars, lockVars, mtmVars, gatewayVars, agentVars,
                    conversations, runs, now >>

\* RunWorkflowStream, steps 5 and 6 when the response cannot stream or
\* RunFromDSL returns an error: the handler returns, the row stays as it is.
RunStreamRefused(r) ==
    LET req == requests[r] IN
    /\ req.pc = "created" /\ req.stream
    /\ requests' = [requests EXCEPT ![r] =
                      [req EXCEPT !.pc = "done", !.response = "error"]]
    /\ UNCHANGED << engineVars, stmVars, lockVars, mtmVars, gatewayVars, agentVars,
                    conversations, runs, now >>

\* RunWorkflowStream, steps 6 and 7: the events are forwarded until the
\* channel closes.
RunStream(r) ==
    LET req == requests[r] IN
    /\ req.pc = "created" /\ req.stream
    /\ \E terminal \in TerminalGraphEvents :
       \E wrote \in (IF req.conversation_id = "" THEN {FALSE} ELSE BOOLEAN) :
          requests' = [requests EXCEPT ![r] =
             [req EXCEPT !.pc = "executed", !.executed = TRUE, !.stmWrite = wrote,
                         !.terminal = terminal,
                         !.status = StreamFinalStatus(terminal), !.response = "done"]]
    /\ UNCHANGED << engineVars, stmVars, lockVars, mtmVars, gatewayVars, agentVars,
                    conversations, runs, now >>

\* Repository.UpdateRun: UPDATE workflow_runs SET status = .. WHERE id = ..
\* AND org_id = .. AND tenant_id = ..  (the scope filter only under a scope).
UpdateRun(id, status, scope) ==
    IF runs[id].present
       /\ (scope = NoScope
           \/ (runs[id].org_id = scope.OrgID /\ runs[id].tenant_id = scope.TenantID))
    THEN [runs EXCEPT ![id].status = status,
                      ![id].statuses = Append(@, status)]
    ELSE runs

\* persistRunAndNodeExecs: the goroutine the handler starts with a snapshot
\* of its run value.
persistRunAndNodeExecs(r) ==
    LET req == requests[r] IN
    /\ req.pc = "executed"
    /\ runs' = UpdateRun(r, req.status, req.scope)
    /\ requests' = [requests EXCEPT ![r].pc = "done"]
    /\ UNCHANGED << engineVars, stmVars, lockVars, mtmVars, gatewayVars, agentVars,
                    conversations, now >>

InitAPI ==
    /\ EngineAtRest
    /\ STMAtRest
    /\ LockAtRest
    /\ MTMAtRest
    /\ GatewayAtRest
    /\ AgentAtRest
    /\ conversations = [c \in ConversationIDs |-> NoConversation]
    /\ runs = [id \in Requests |-> NoRun]
    /\ requests \in [Requests -> {NewRequest(in) : in \in RequestInputs}]
    /\ now = 0

NextAPI ==
    \/ \E r \in Requests : HandleEnsure(r)
    \/ \E r \in Requests : HandleCreateRun(r)
    \/ \E r \in Requests : RunSync(r)
    \/ \E r \in Requests : RunStreamRefused(r)
    \/ \E r \in Requests : RunStream(r)
    \/ \E r \in Requests : persistRunAndNodeExecs(r)

SpecAPI == InitAPI /\ [][NextAPI]_vars

(***************************************************************************)
(* Properties of the run handlers.                                         *)
(***************************************************************************)
\* The scope an ownership row names.
Owner(c) ==
    [OrgID |-> conversations[c].org_id, TenantID |-> conversations[c].tenant_id]

\* Request r carries a scope other than the one that owns its conversation.
Foreign(r) ==
    /\ requests[r].scope # NoScope
    /\ requests[r].conversation_id \in ConversationIDs
    /\ conversations[requests[r].conversation_id].present
    /\ Owner(requests[r].conversation_id) # requests[r].scope

\* C21: once a conversation has an ownership row, the row keeps its owner
\* for ever, and every ownership check made for that conversation under a
\* different scope, in any interleaving with other checks, returns the
\* conflict error and leaves every field of the row as it was.
C21_ForeignEnsureConflictsRowUnchanged ==
    [][ \A c \in ConversationIDs :
          conversations[c].present =>
             /\ conversations'[c].present
             /\ conversations'[c].org_id = conversations[c].org_id
             /\ conversations'[c].tenant_id = conversations[c].tenant_id
             /\ \A r \in Requests :
                   ( /\ Foreign(r)
                     /\ requests[r].conversation_id = c
                     /\ requests[r].pc = "received"
                     /\ requests'[r].pc # "received" )
                   => /\ requests'[r].response = "409 conversation_id_conflict"
                      /\ conversations'[c] = conversations[c] ]_vars

\* A conversation owned by (orgA, tenantA) and a check under
\* (orgA, tenantB) that was answered with the conflict, the row's
\* updated_at still being its created_at.
C21_SameOrgOtherTenantRejected ==
    \E c \in ConversationIDs : \E r \in Requests :
       /\ conversations[c].present
       /\ Owner(c) = [OrgID |-> "orgA", TenantID |-> "tenantA"]
       /\ requests[r].conversation_id = c
       /\ requests[r].scope = [OrgID |-> "orgA", TenantID |-> "tenantB"]
       /\ requests[r].response = "409 conversation_id_conflict"
       /\ conversations[c].updated_at = conversations[c].created_at

\* C22: a run request whose scope differs from the owner of its
\* conversation is answered with the conflict and has no effect: no run row
\* of that scope names the conversation, the runner was not started for it
\* and its execution wrote nothing to the conversation's STM.
C22_ForeignRunRejectedWithoutEffect ==
    \A r \in Requests :
       Foreign(r) =>
          /\ requests[r].pc \in {"received", "done"}
          /\ requests[r].pc = "done" =>
                requests[r].response = "409 conversation_id_conflict"
          /\ ~requests[r].executed
          /\ ~requests[r].stmWrite
          /\ \A id \in Requests :
                ~ ( /\ runs[id].present
                    /\ runs[id].conversation_id = requests[r].conversation_id
                    /\ runs[id].org_id = requests[r].scope.OrgID
                    /\ runs[id].tenant_id = requests[r].scope.TenantID )

\* The owner's run was executed and wrote the STM while the run request of
\* another scope for the same conversation was answered with the conflict.
C22_OwnerRanForeignRejected ==
    \E r, q \in Requests :
       /\ Foreign(r)
       /\ requests[r].pc = "done"
       /\ requests[r].response = "409 conversation_id_conflict"
       /\ requests[q].conversation_id = requests[r].conversation_id
       /\ requests[q].scope = Owner(requests[q].conversation_id)
       /\ requests[q].stmWrite
       /\ runs[q].present
       /\ ~runs[r].present

\* C23: the status column of a run row starts as running and is written at
\* most once more, with succeeded, failed or aborted.
C23_RunStatusRunningThenTerminalOnce ==
    \A id \in Requests :
       runs[id].present =>
          /\ runs[id].status = runs[id].statuses[Len(runs[id].statuses)]
          /\ \/ runs[id].statuses = << RunStatusRunning >>
             \/ \E t \in {RunStatusSucceeded, RunStatusFailed, RunStatusAborted} :
                   runs[id].statuses = << RunStatusRunning, t >>

\* One run persisted as failed by the synchronous handler, another
\* persisted as succeeded by the streaming handler.
C23_TwoRunsPersistedTerminal ==
    \E id, id2 \in Requests :
       /\ ~requests[id].stream /\ requests[id2].stream
       /\ requests[id].pc = "done" /\ requests[id2].pc = "done"
       /\ runs[id].statuses = << RunStatusRunning, RunStatusFailed >>
       /\ runs[id2].statuses = << RunStatusRunning, RunStatusSucceeded >>

(***************************************************************************)
(* C40.  As claimed: the run status persisted after the event stream has   *)
(* ended matches the kind of the terminal graph event (succeeded for       *)
(* graph_run_succeeded, failed for graph_run_failed, aborted for           *)
(* graph_run_aborted), in the synchronous and in the streaming handler.    *)
(***************************************************************************)
StatusOfTerminal(terminal) ==
    CASE terminal = EventTypeGraphRunSucceeded -> RunStatusSucceeded
      [] terminal = EventTypeGraphRunFailed    -> RunStatusFailed
      [] terminal = EventTypeGraphRunAborted   -> RunStatusAborted

MergeKeyFactsExistingWins(existingFacts, extracted) ==
    [k \in DOMAIN extracted \cup DOMAIN existingFacts |->
        IF k \in DOMAIN existingFacts THEN existingFacts[k] ELSE extracted[k]]

\* Lines 99-103: every existing fact whose key the response did not return
\* is added to the parsed facts.
MergeKeyFacts(existingFacts, extracted) ==
    [k \in DOMAIN extracted \cup DOMAIN existingFacts |->
        IF k \in DOMAIN extracted THEN extracted[k] ELSE existingFacts[k]]

\* The subsets of S of n elements.
RECURSIVE SubsetsOfSize(_, _)
SubsetsOfSize(S, n) ==
    IF n = 0 THEN {{}}
    ELSE UNION { {D \cup {x} : D \in SubsetsOfSize(S \ {x}, n - 1)} : x \in S }

\* A mutation of TrimKeyFacts: nothing is dropped.
TrimKeyFactsKeepsAll(facts) == {facts}

\* Lines 106-117: of more than 20 facts the first 20 that "range" yields
\* are kept; the iteration order of a Go map is unspecified, so any 20 may
\* be the ones kept.  The set of maps the trimming can return.
TrimKeyFacts(facts) ==
    IF Cardinality(DOMAIN facts) > maxKeyFacts
    THEN { [k \in (DOMAIN facts) \ D |-> facts[k]] :
              D \in SubsetsOfSize(DOMAIN facts,
                                  Cardinality(DOMAIN facts) - maxKeyFacts) }
    ELSE {facts}

\* Lines 84-118: the key facts Compress can return; on a parse failure the
\* existing facts as they are.
CompressKeyFacts(existingFacts, extracted, parsed) ==
    IF parsed THEN TrimKeyFacts(MergeKeyFacts(existingFacts, extracted))
    ELSE {existingFacts}

\* compressAsync, steps 1 to 3: the lock is taken and the state loaded.
GatewayLoad ==
    /\ gateway.pc = "idle"
    /\ gateway.runs < MaxGatewayRuns
    /\ gateway' = [gateway EXCEPT !.pc = "loaded", !.runs = @ + 1,
                                  !.state = gateway.stored, !.wrote = FALSE]
    /\ UNCHANGED << engineVars, stmVars, lockVars, mtmVars, apiVars, agentVars >>

\* compressAsync, step 4: Compress returns a result.
GatewayCompress ==
    /\ gateway.pc = "loaded"
    /\ \E parsed \in BOOLEAN :
       \E S \in (IF parsed THEN ExtractedKeySets ELSE {{}}) :
          LET extracted == [k \in S |-> gateway.runs] IN
          \E result \in CompressKeyFacts(gateway.state, extracted, parsed) :
             gateway' = [gateway EXCEPT !.pc = "compressed", !.parsed = parsed,
                                        !.extracted = extracted, !.result = result]
    /\ UNCHANGED << engineVars, stmVars, lockVars, mtmVars, apiVars, agentVars >>

\* compressAsync, steps 5 to 7: the version is unchanged and the
\* compare-and-set save succeeds.
GatewaySave ==
    /\ gateway.pc = "compressed"
    /\ gateway' = [gateway EXCEPT !.pc = "idle", !.stored = gateway.result,
                                  !.wrote = TRUE]
    /\ UNCHANGED << engineVars, stmVars, lockVars, mtmVars, apiVars, agentVars >>

\* compressAsync returns without saving: Compress failed, the version moved
\* or the compare-and-set save lost.
GatewayDiscard ==
    /\ gateway.pc \in {"loaded", "compressed"}
    /\ gateway' = [gateway EXCEPT !.pc = "idle"]
    /\ UNCHANGED << engineVars, stmVars, lockVars, mtmVars, apiVars, agentVars >>

InitGateway ==
    /\ EngineAtRest
    /\ STMAtRest
    /\ LockAtRest
    /\ MTMAtRest
    /\ APIAtRest
    /\ AgentAtRest
    /\ GatewayAtRest

NextGateway ==
    \/ GatewayLoad
    \/ GatewayCompress
    \/ GatewaySave
    \/ GatewayDiscard

SpecGateway == InitGateway /\ [][NextGateway]_vars

\* The keys both the existing facts and the parsed response carry and the
\* result still has.
Collisions ==
    DOMAIN gateway.state \cap DOMAIN gateway.extracted \cap DOMAIN gateway.result

\* C24 (as stated): a key present both in the existing key facts and in
\* the newly extracted ones keeps its existing value in the merged map.
C24_CollisionKeepsExisting ==
    (gateway.pc = "compressed" /\ gateway.parsed) =>
       \A k \in Collisions : gateway.result[k] = gateway.state[k]

\* C24 (amended): a key present both in the existing key facts and in the
\* newly extracted ones carries the newly extracted value in the merged
\* map; an existing value is kept only for a key the extraction did not
\* return.
C24_CollisionKeepsExtracted ==
    (gateway.pc = "compressed" /\ gateway.parsed) =>
       \A k \in DOMAIN gateway.result :
          gateway.result[k] = IF k \in DOMAIN gateway.extracted
                              THEN gateway.extracted[k]
                              ELSE gateway.state[k]

\* The second compression returned a key the first one had stored, with
\* another value, and the key is in the result.
C24_SecondRunCollides ==
    /\ gateway.pc = "compressed" /\ gateway.parsed
    /\ \E k \in Collisions : gateway.state[k] = 1 /\ gateway.extracted[k] = 2

\* C25: the key facts stored for the conversation never number more than
\* 20, whichever branch of Compress produced the result that was saved.
C25_StoredKeyFactsAtMostTwenty ==
    /\ Cardinality(DOMAIN gateway.stored) <= maxKeyFacts
    /\ gateway.pc = "compressed" =>
          Cardinality(DOMAIN gateway.result) <= maxKeyFacts

\* A first compression whose merged facts exceeded 20 was saved with 20,
\* and a second one, whose response did not parse, saved those 20 again.
C25_FallbackSavedTwentyFacts ==
    /\ gateway.pc = "idle" /\ gateway.runs = 2
    /\ gateway.wrote /\ ~gateway.parsed
    /\ gateway.stored = gateway.state
    /\ Cardinality(DOMAIN gateway.stored) = maxKeyFacts
    /\ \E k \in Keys : k \notin DOMAIN gateway.stored

(***************************************************************************)
(* LLMNode.Run in agent mode, lines 383-488 and 529-556, and saveMemory.   *)
(***************************************************************************)
ErrLLMComplete == "LLM complete error"
ErrSafetyLimit == "exceeded safety limit"

\* The contents a response without tool calls can carry.
FinalContents == {"", "answer"}

\* How many tool calls a response can carry: one, or as many as the bound.
ToolCallCounts == {1, MaxToolCalls}

\* A mutation of ToolMessagesInCallOrder: the messages in the order the
\* tools ended in.
ToolMessagesInCompletionOrder(toolMessages, completed) ==
    [j \in 1..Len(toolMessages) |-> toolMessages[completed[j]]]

\* Lines 438 and 482: toolMessages is indexed by the position of the call
\* in resp.ToolCalls and appended as it is.
ToolMessagesInCallOrder(toolMessages, completed) == toolMessages

\* One pass of the loop body up to the tool goroutines: Complete is called;
\* an error ends Run, a response without tool calls sets content and breaks,
\* tool calls append the assistant message and start one goroutine each.
AgentComplete ==
    /\ agent.pc = "call"
    /\ \/ agent' = [agent EXCEPT !.pc = "done", !.calls = @ + 1,
                                 !.result = "failed", !.error = ErrLLMComplete]
       \/ \E c \in FinalContents :
             agent' = [agent EXCEPT !.pc = "exit", !.calls = @ + 1, !.content = c]
       \/ \E n \in ToolCallCounts :
             LET ids == [i \in 1..n |-> 10 * agent.round + i] IN
             agent' = [agent EXCEPT
                          !.pc = "tools", !.calls = @ + 1, !.toolRounds = @ + 1,
                          !.messages = Append(@, AssistantMessage(ids)),
                          !.toolCalls = ids,
                          !.toolMessages = [i \in 1..n |-> NoMessage],
                          !.completed = << >>]
    /\ UNCHANGED << engineVars, stmVars, lockVars, mtmVars, apiVars, gatewayVars, memorize >>

\* The goroutine of tool call i, lines 442-479: the tool is executed (an
\* error becomes the content of the message) and slot i is written.
ToolDone(i) ==
    /\ agent.pc = "tools"
    /\ i \in 1..Len(agent.toolCalls)
    /\ agent.toolMessages[i] = NoMessage
    /\ agent' = [agent EXCEPT !.toolMessages[i] = ToolMessage(agent.toolCalls[i]),
                              !.completed = Append(@, i)]
    /\ UNCHANGED << engineVars, stmVars, lockVars, mtmVars, apiVars, gatewayVars, memorize >>

\* Lines 481-483: toolWG.Wait() returns, the tool messages are appended and
\* the loop goes to its next round, or ends at the safety limit.
ToolsJoined ==
    /\ agent.pc = "tools"
    /\ \A i \in 1..Len(agent.toolCalls) : agent.toolMessages[i] # NoMessage
    /\ agent' = [agent EXCEPT
                    !.messages = @ \o ToolMessagesInCallOrder(agent.toolMessages,
                                                              agent.completed),
                    !.round = @ + 1,
                    !.pc = IF agent.round + 1 < safetyLimit THEN "call" ELSE "exit"]
    /\ UNCHANGED << engineVars, stmVars, lockVars, mtmVars, apiVars, gatewayVars, memorize >>

\* Lines 486-488 and 529-556: an empty content is the safety-limit error;
\* otherwise saveMemory starts the Memorize goroutine (when the node has the
\* short-term memory enabled) and the succeeded result is returned.
AgentReturn ==
    /\ agent.pc = "exit"
    /\ IF agent.content = ""
       THEN /\ agent' = [agent EXCEPT !.pc = "done", !.result = "failed",
                                      !.error = ErrSafetyLimit]
            /\ UNCHANGED memorize
       ELSE /\ agent' = [agent EXCEPT !.pc = "done", !.result = "succeeded"]
            /\ memorize' = IF agent.memoryEnabled
                           THEN [memorize EXCEPT !.pc = "started"]
                           ELSE memorize
    /\ UNCHANGED << engineVars, stmVars, lockVars, mtmVars, apiVars, gatewayVars >>

\* What can go wrong inside Memorize: Append returns a Redis error or gives
\* up on version conflicts, LoadState fails in the compression check,
\* GetTurnCount fails in the summary check.
MemoryFailures ==
    {"none", "append: redis error", "append: version conflict",
     "load state error", "turn count error"}

\* A mutation of Memorize: the error of Append is returned.
MemorizeReturnsAppendError(failure) ==
    IF failure \in {"append: redis error", "append: version conflict"}
    THEN [err |-> failure, appended |-> FALSE]
    ELSE [err |-> ErrNil, appended |-> TRUE]

\* Coordinator.Memorize, lines 223-275: a failed Append is logged and nil
\* is returned; the later checks log their failures and nil is returned.
Memorize(failure) ==
    IF failure \in {"append: redis error", "append: version conflict"}
    THEN [err |-> ErrNil, appended |-> FALSE]
    ELSE [err |-> ErrNil, appended |-> TRUE]

\* The goroutine of saveMemory, lines 800-815: Memorize is called and its
\* error only logged.
MemorizeRun ==
    /\ memorize.pc = "started"
    /\ \E failure \in MemoryFailures :
          memorize' = [pc |-> "done", err |-> Memorize(failure).err,
                       appended |-> Memorize(failure).appended,
                       failure |-> failure]
    /\ UNCHANGED << engineVars, stmVars, lockVars, mtmVars, apiVars, gatewayVars, agent >>

InitAgent ==
    /\ EngineAtRest
    /\ STMAtRest
    /\ LockAtRest
    /\ MTMAtRest
    /\ APIAtRest
    /\ GatewayAtRest
    /\ \E enabled \in BOOLEAN :
          agent = [AgentIdle EXCEPT !.pc = "call", !.memoryEnabled = enabled]
    /\ memorize = MemorizeIdle

NextAgent ==
    \/ AgentComplete
    \/ \E i \in 1..MaxToolCalls : ToolDone(i)
    \/ ToolsJoined
    \/ AgentReturn
    \/ MemorizeRun

SpecAgent == InitAgent /\ [][NextAgent]_vars

\* C26: Memorize returns nil whatever failed inside it, and the result of
\* the LLM node is the succeeded one it returned when it started Memorize.
C26_MemorizeNeverFailsNode ==
    /\ memorize.pc = "done" => memorize.err = ErrNil
    /\ memorize.pc # "idle" => (agent.pc = "done" /\ agent.result = "succeeded")

\* Append gave up on version conflicts inside Memorize, nothing was stored,
\* and the node had succeeded.
C26_AppendConflictNodeSucceeded ==
    /\ memorize.pc = "done"
    /\ memorize.failure = "append: version conflict"
    /\ ~memorize.appended
    /\ agent.result = "succeeded"

\* C27: the model is called at most 10 times; a run that got a response
\* without tool calls succeeded, and the safety-limit error is returned
\* exactly when all 10 responses carried tool calls.
C27_SafetyLimitIffTenToolRounds ==
    /\ agent.calls <= safetyLimit
    /\ (agent.pc = "done" /\ agent.error # ErrLLMComplete) =>
          /\ agent.toolRounds < agent.calls => agent.result = "succeeded"
          /\ agent.error = ErrSafetyLimit <=>
                (agent.calls = safetyLimit /\ agent.toolRounds = safetyLimit)

\* C28: the tool messages of a round follow the assistant message that
\* carried the calls, one per call, in the order of the calls and each with
\* the id of its call, whatever order the tools ended in; while a tool of
\* the round is still running none of them is in the conversation.
C28_ToolMessagesInCallOrderAfterAll ==
    /\ \A p \in 1..Len(agent.messages) :
          agent.messages[p].ToolCalls # << >> =>
             LET ids == agent.messages[p].ToolCalls IN
             IF p = Len(agent.messages)
             THEN agent.pc = "tools" /\ ids = agent.toolCalls
             ELSE /\ Len(agent.messages) >= p + Len(ids)
                  /\ \A j \in 1..Len(ids) :
                        /\ agent.messages[p + j].Role = "tool"
                        /\ agent.messages[p + j].ToolCallID = ids[j]
    /\ agent.pc = "tools" =>
          agent.messages[Len(agent.messages)].ToolCalls = agent.toolCalls

\* The second tool of a round ended before the first, and the round's
\* messages were appended, the first call's message first.
C28_ReverseCompletionAppended ==
    /\ agent.pc \in {"call", "exit"}
    /\ agent.completed = << 2, 1 >>
    /\ Len(agent.messages) >= 3
    /\ agent.messages[Len(agent.messages) - 1].ToolCallID = agent.toolCalls[1]
    /\ agent.messages[Len(agent.messages)].ToolCallID = agent.toolCalls[2]

(***************************************************************************)
(* RedisCompressLock and compressAsync, lines 432-449: SETNX with a TTL,   *)
(* the compression, DEL.                                                   *)
(***************************************************************************)
LockRest == UNCHANGED << engineVars, stmVars, apiVars, gatewayVars, agentVars, mtmVars >>

\* Acquire: SET key "locked" NX EX 30.  The goroutine that does not get the
\* key returns without compressing.
Acquire(c) ==
    /\ compressions[c] = "idle"
    /\ IF ~lock.present
       THEN /\ lock' = [lock EXCEPT !.present = TRUE, !.left = ttl, !.owner = c]
            /\ compressions' = [compressions EXCEPT ![c] = "compressing"]
       ELSE /\ compressions' = [compressions EXCEPT ![c] = "skipped"]
            /\ UNCHANGED lock
    /\ LockRest

\* Time passes while a key is set; Redis removes the key when its TTL is up,
\* whatever its holder is doing (compressAsync runs on context.Background()
\* and its LLM call may outlast the TTL).
Tick ==
    /\ lock.present
    /\ lock' = IF lock.left - TickSeconds <= 0
               THEN [lock EXCEPT !.present = FALSE, !.left = 0, !.owner = 0]
               ELSE [lock EXCEPT !.left = lock.left - TickSeconds]
    /\ UNCHANGED compressions
    /\ LockRest

\* Release, the deferred call of compressAsync: DEL key, unconditionally.
Release(c) ==
    /\ compressions[c] = "compressing"
    /\ lock' = [lock EXCEPT !.present = FALSE, !.left = 0, !.owner = 0,
                            !.freedForeign = @ \/ (lock.present /\ lock.owner # c)]
    /\ compressions' = [compressions EXCEPT ![c] = "done"]
    /\ LockRest

InitLock ==
    /\ EngineAtRest
    /\ STMAtRest
    /\ ServicesAtRest

NextLock ==
    \/ \E c \in Compressions : Acquire(c)
    \/ Tick
    \/ \E c \in Compressions : Release(c)

SpecLock == InitLock /\ [][NextLock]_vars

\* C38, as claimed: at any moment at most one compression of the
\* conversation is between its successful Acquire and its Release, and no
\* Release has freed a lock that another compression had acquired, also
\* when a compression outlasts the TTL of the lock.
C38_OneCompressionHoldsTheLock ==
    /\ Cardinality({c \in Compressions : compressions[c] = "compressing"}) <= 1
    /\ ~lock.freedForeign

(***************************************************************************)
(* PgMTM.LoadSummary and PgMTM.SaveSummary: cache-aside over PostgreSQL    *)
(* with a Redis cache, each statement and each Redis command a step.       *)
(***************************************************************************)
MTMRest == UNCHANGED << engineVars, stmVars, apiVars, gatewayVars, agentVars, lockVars >>

\* A SaveSummary call is between its INSERT and its cache invalidation.
SaveInProgress == \E s \in Saves : saves[s] = "invalidate"

\* LoadSummary, lines 86-109: GET of the cache key; a hit is returned.
LoadCacheGet(l) ==
    /\ loads[l].pc = "idle"
    /\ LET saved == IF SaveInProgress THEN 0 ELSE pg IN
       loads' = [loads EXCEPT ![l] =
                   IF cache # 0
                   THEN [pc |-> "done", read |-> 0, result |-> cache, saved |-> saved]
                   ELSE [pc |-> "query", read |-> 0, result |-> 0, saved |-> saved]]
    /\ UNCHANGED << pg, cache, saves >>
    /\ MTMRest

\* LoadSummary, lines 112-137: the SELECT; no row is returned as nil.
LoadQuery(l) ==
    /\ loads[l].pc = "query"
    /\ loads' = [loads EXCEPT ![l] =
                   IF pg = 0 THEN [loads[l] EXCEPT !.pc = "done"]
                   ELSE [loads[l] EXCEPT !.pc = "fill", !.read = pg]]
    /\ UNCHANGED << pg, cache, saves >>
    /\ MTMRest

\* LoadSummary, lines 150-155, setCache: SET of the row that was read.
LoadFill(l) ==
    /\ loads[l].pc = "fill"
    /\ cache' = loads[l].read
    /\ loads' = [loads EXCEPT ![l] =
                   [loads[l] EXCEPT !.pc = "done", !.result = loads[l].read]]
    /\ UNCHANGED << pg, saves >>
    /\ MTMRest

\* SaveSummary, lines 175-200: the upsert of the next summary.
SaveWrite(s) ==
    /\ saves[s] = "idle"
    /\ pg' = pg + 1
    /\ saves' = [saves EXCEPT ![s] = "invalidate"]
    /\ UNCHANGED << cache, loads >>
    /\ MTMRest

\* SaveSummary, lines 204-217: DEL of the cache key, then the return.
SaveInvalidate(s) ==
    /\ saves[s] = "invalidate"
    /\ cache' = 0
    /\ saves' = [saves EXCEPT ![s] = "done"]
    /\ UNCHANGED << pg, loads >>
    /\ MTMRest

InitMTM ==
    /\ EngineAtRest
    /\ STMAtRest
    /\ ServicesAtRest

NextMTM ==
    \/ \E l \in Loads : LoadCacheGet(l)
    \/ \E l \in Loads : LoadQuery(l)
    \/ \E l \in Loads : LoadFill(l)
    \/ \E s \in Saves : SaveWrite(s)
    \/ \E s \in Saves : SaveInvalidate(s)

SpecMTM == InitMTM /\ [][NextMTM]_vars

\* C39, as claimed: a LoadSummary that started when a SaveSummary had
\* returned and no save was in progress returns the summary saved then (or
\* one saved later), whatever LoadSummary calls overlapped the save; and
\* with no save and no load under way, the cache holds nothing or the row
\* of the store, never a row read before the last save.
C39_LoadAfterSaveReturnsSaved ==
    /\ \A l \in Loads :
          (loads[l].pc = "done" /\ loads[l].saved # 0) =>
              loads[l].result >= loads[l].saved
    /\ ((~SaveInProgress) /\ \A l \in Loads : loads[l].pc \in {"idle", "done"})
          => cache \in {0, pg}


====
